---- MODULE Spec2Model ----
(***************************************************************************)
(* Undertone: voice-dictation engine.                                      *)
(*                                                                         *)
(* The module models                                                       *)
(*   - AudioRecorder (src/src/undertone/audio.py): the audio callback, the *)
(*     rolling pre-buffer, start_recording and stop_recording, statement   *)
(*     by statement, with the threading.Lock that guards them;             *)
(*   - UndertoneEngine (src/src/undertone/engine.py): the two trigger      *)
(*     handlers run by the hotkey listener thread and the per-session      *)
(*     worker thread running _transcribe_and_type.                         *)
(*                                                                         *)
(* Two specifications share the recorder's actions:                        *)
(*   RecSpec  the recorder alone, its public methods called in any order   *)
(*            by one client thread, against the audio callback thread;     *)
(*   Spec     the engine: hotkey thread, workers and the audio callback.   *)
(*   LiveSpec is Spec with the fairness the thread scheduler gives.        *)
(* The other specifications take one component at a time:                  *)
(*   LifeSpec   the recorder's stream and the hotkey manager on their own; *)
(*   RouteSpec, GroqSpec, CleanSpec   one call of route_transcription, of  *)
(*              GroqTranscriber.transcribe and of TextCleaner.clean;       *)
(*   ShutSpec   the engine from run() to shutdown();                       *)
(*   WiredSpec  the engine driven by the hotkey manager's key handlers.    *)
(***************************************************************************)
EXTENDS Naturals, Integers, Sequences, FiniteSets, TLC

\* ------------------------------------------------------------------ bounds
\* Chunks the audio subsystem delivers in one run.
MaxChunks == 3

\* Recording sessions the engine accepts in one run.
MaxSessions == 2

\* int(sample_rate * pre_buffer_sec / chunk_size) of the configuration under
\* check (audio.py:30); the default configuration gives 7.
PreBufferChunks == 2
MaxEvents == 4
MaxText == 2
MaxTail == 2

VARIABLES
    \* ---- AudioRecorder
    pre_buffer,        \* deque(maxlen): chunk ids, oldest first
    recording_chunks,  \* list of chunk ids
    is_recording,      \* bool
    lock,              \* holder of self._lock: "free", "audio", "caller"
    cb_pc,             \* audio callback thread: "idle", "acquire", "route", "release"
    cb_chunk,          \* the callback's local `chunk` (0: none)
    n_chunks,          \* chunks delivered by the audio subsystem so far
    rec_pc,            \* position of the thread inside start_/stop_recording
    chunks,            \* stop_recording's local `chunks`
    audio_buf,         \* value returned by the last stop_recording
    \* ---- history of the recorder (read by properties only)
    routed,            \* chunk ids in the order the callback routed them
    g_pre,             \* pre_buffer when the last start_recording took the lock
    g_start,           \* Len(routed) at that moment (-1: never started)
    g_stop,            \* Len(routed) when the last stop_recording took the lock
    g_paired,          \* the last stop_recording followed a start_recording
    g_open,            \* a start_recording has not been followed by a stop yet
    g_mark,            \* Len(routed) when the pre-buffer was last drained by
                       \* start_recording or a recording was last stopped
    g_fate,            \* per chunk: "none" (not routed yet), "pre" (routed to
                       \* the pre-buffer), "live" (routed to the recording),
                       \* "clip" (returned in one clip), "dup" (in two)
    \* ---- UndertoneEngine
    _recording,
    _transcribing,
    _using_fallback,
    cleaner,           \* self.cleaner is not None (config cleanup.enabled)
    tray,              \* self.tray is not None (config tray.enabled and HAS_TRAY)
    tray_state,        \* last state given to tray.set_state
    hk_pc,             \* hotkey listener thread: position in the trigger handlers
    session,           \* number of start triggers accepted so far
    w_pc,              \* per session: position of its worker thread
    w_text,            \* per session: the worker's local `text`
    w_fail,            \* per session: stage that raised ("none" if none)
    inject_calls,      \* per session: calls of inject_text
    injected,          \* sessions whose text was pasted, in order
    play_start_calls,  \* calls of sounds.play_start
    play_stop_calls,   \* calls of sounds.play_stop
    start_calls,       \* calls of recorder.start_recording by the engine
    stop_calls,        \* calls of recorder.stop_recording by the engine
    last_stop_empty,   \* the last accepted stop trigger got no clip and no
                       \* start trigger has been accepted since
    released,          \* the calls shutdown() has made so far, in order
    \* ---- AudioRecorder stream
    stream,            \* self.stream: "none" (None) or "open"
    dev_stops,         \* calls of stop() on the latest InputStream object
    dev_closes,        \* calls of close() on the latest InputStream object
    \* ---- HotkeyManager
    _ptt_held,
    _toggle_active,
    _listener,         \* "none" (None), "running" or "stopped"
    on_start_calls,    \* calls of the on_start callback
    on_stop_calls,     \* calls of the on_stop callback
    \* ---- history of the teardown calls and the key events
    td_raised,         \* a close() or stop() call has raised
    close_run,         \* close() calls since the last open(), counted up to 2
    stop_unstarted,    \* stop() was called on a manager never started
    n_events,          \* key events delivered so far
    ev,                \* the last key event: its kind and key, and the two
                       \* flags as its handler found them
    ev_cbs,            \* the callbacks its handler invoked, in order
    hold_starts,       \* per key: on_start calls made by press events of the
                       \* key since the last release event of that key
    \* ---- route_transcription
    rt_in,             \* the arguments and backend behaviour of one call
    rt_out,            \* what the call did and gave back
    \* ---- GroqTranscriber.transcribe
    gq_in,             \* the credential and backend behaviour of one call
    gq_out,            \* what the call did and gave back
    \* ---- TextCleaner.clean
    cl_in,             \* the cleaner's configuration, the text and the LLM's
                       \* behaviour of one call
    cl_out             \* what the call did and gave back

rec_vars == <<pre_buffer, recording_chunks, is_recording, lock, cb_pc, cb_chunk,
              n_chunks, rec_pc, chunks, audio_buf>>
hist_vars == <<routed, g_pre, g_start, g_stop, g_paired, g_open, g_mark,
               g_fate>>
flag_vars == <<_recording, _transcribing, _using_fallback>>
\* What no handler, worker or recorder method assigns: the configuration and
\* the calls made by shutdown().
cfg_vars == <<cleaner, tray, released>>
dev_vars == <<stream, dev_stops, dev_closes>>
hkm_vars == <<_ptt_held, _toggle_active, _listener, on_start_calls,
              on_stop_calls>>
life_hist_vars == <<td_raised, close_run, stop_unstarted, n_events, ev, ev_cbs,
                   hold_starts>>
router_vars == <<rt_in, rt_out>>
groq_vars == <<gq_in, gq_out>>
clean_vars == <<cl_in, cl_out>>
fn_vars == <<router_vars, groq_vars, clean_vars>>
comp_vars == <<dev_vars, hkm_vars, life_hist_vars, fn_vars>>
worker_vars == <<w_pc, w_text, w_fail, inject_calls, injected>>
count_vars == <<play_start_calls, play_stop_calls, start_calls, stop_calls>>
engine_vars == <<flag_vars, cfg_vars, tray_state, hk_pc, session, worker_vars,
                 count_vars, last_stop_empty>>
vars == <<rec_vars, hist_vars, engine_vars, comp_vars>>

Sessions == 1..MaxSessions

\* ------------------------------------------------------------ AudioRecorder

\* deque(maxlen=max(pre_buffer_chunks, 1))
maxlen == IF PreBufferChunks > 1 THEN PreBufferChunks ELSE 1

\* deque.append on a deque without maxlen: nothing is ever dropped.
DequeAppendUnbounded(q, x) == Append(q, x)

\* deque.append on a bounded deque: at capacity the oldest element is dropped.
DequeAppend(q, x) ==
    IF Len(q) >= maxlen THEN Append(Tail(q), x) ELSE Append(q, x)

\* Values stop_recording can produce.
NoClip == [kind |-> "none", data |-> <<>>]
Clip(cs) == [kind |-> "clip", data |-> cs]
Raised == [kind |-> "raise", data |-> <<>>]

\* np.concatenate(chunks, axis=0) written to a WAV buffer: the frames of the
\* chunks in list order; numpy raises ValueError on an empty list.
Concatenate(cs) == IF cs = <<>> THEN Raised ELSE Clip(cs)

\* stop_recording without its `if not chunks` guard.
StopResultNoGuard(cs) == Concatenate(cs)

\* stop_recording after the critical section: None when nothing was captured.
StopResult(cs) == IF cs = <<>> THEN NoClip ELSE Concatenate(cs)

\* `with self._lock` entered without excluding the other holder.
LockAvailableAlways == TRUE

\* threading.Lock: acquire blocks until the lock is free.
LockAvailable == lock = "free"

\* _audio_callback: chunk = indata.copy()
AudioCallback_Copy ==
    /\ cb_pc = "idle"
    /\ n_chunks < MaxChunks
    /\ n_chunks' = n_chunks + 1
    /\ cb_chunk' = n_chunks + 1
    /\ cb_pc' = "acquire"
    /\ UNCHANGED <<pre_buffer, recording_chunks, is_recording, lock, rec_pc,
                   chunks, audio_buf>>
    /\ UNCHANGED <<hist_vars, engine_vars, comp_vars>>

\* _audio_callback: with self._lock (enter)
AudioCallback_Acquire ==
    /\ cb_pc = "acquire"
    /\ LockAvailable
    /\ lock' = "audio"
    /\ cb_pc' = "route"
    /\ UNCHANGED <<pre_buffer, recording_chunks, is_recording, cb_chunk,
                   n_chunks, rec_pc, chunks, audio_buf>>
    /\ UNCHANGED <<hist_vars, engine_vars, comp_vars>>

\* _audio_callback routing every chunk to the pre-buffer.
RouteToRecordingNever == FALSE

\* _audio_callback: if self.is_recording
RouteToRecording == is_recording

\* _audio_callback: the chunk goes to the recording or to the pre-buffer.
AudioCallback_Route ==
    /\ cb_pc = "route"
    /\ IF RouteToRecording
       THEN /\ recording_chunks' = Append(recording_chunks, cb_chunk)
            /\ UNCHANGED pre_buffer
       ELSE /\ pre_buffer' = DequeAppend(pre_buffer, cb_chunk)
            /\ UNCHANGED recording_chunks
    /\ routed' = Append(routed, cb_chunk)
    /\ g_fate' = [g_fate EXCEPT ![cb_chunk] =
                     IF RouteToRecording THEN "live" ELSE "pre"]
    /\ cb_pc' = "release"
    /\ UNCHANGED <<is_recording, lock, cb_chunk, n_chunks, rec_pc, chunks,
                   audio_buf>>
    /\ UNCHANGED <<g_pre, g_start, g_stop, g_paired, g_open, g_mark, engine_vars, comp_vars>>

\* _audio_callback: with self._lock (exit), return
AudioCallback_Release ==
    /\ cb_pc = "release"
    /\ lock' = "free"
    /\ cb_pc' = "idle"
    /\ cb_chunk' = 0
    /\ UNCHANGED <<pre_buffer, recording_chunks, is_recording, n_chunks,
                   rec_pc, chunks, audio_buf>>
    /\ UNCHANGED <<hist_vars, engine_vars, comp_vars>>

AudioCallback ==
    \/ AudioCallback_Copy
    \/ AudioCallback_Acquire
    \/ AudioCallback_Route
    \/ AudioCallback_Release

\* start_recording: with self._lock (enter)
StartRecording_Acquire ==
    /\ rec_pc = "start_acquire"
    /\ LockAvailable
    /\ lock' = "caller"
    /\ rec_pc' = "start_copy"
    /\ g_pre' = pre_buffer
    /\ g_start' = Len(routed)
    /\ g_open' = TRUE
    /\ UNCHANGED <<pre_buffer, recording_chunks, is_recording, cb_pc, cb_chunk,
                   n_chunks, chunks, audio_buf>>
    /\ UNCHANGED <<routed, g_stop, g_paired, g_mark, g_fate, engine_vars,
                   comp_vars>>

\* start_recording: self.recording_chunks = list(self.pre_buffer)
StartRecording_Copy ==
    /\ rec_pc = "start_copy"
    /\ recording_chunks' = pre_buffer
    /\ rec_pc' = "start_clear"
    /\ UNCHANGED <<pre_buffer, is_recording, lock, cb_pc, cb_chunk, n_chunks,
                   chunks, audio_buf>>
    /\ UNCHANGED <<hist_vars, engine_vars, comp_vars>>

\* start_recording: self.pre_buffer.clear()
StartRecording_Clear ==
    /\ rec_pc = "start_clear"
    /\ pre_buffer' = <<>>
    /\ rec_pc' = "start_flag"
    /\ g_mark' = Len(routed)
    /\ UNCHANGED <<recording_chunks, is_recording, lock, cb_pc, cb_chunk,
                   n_chunks, chunks, audio_buf>>
    /\ UNCHANGED <<routed, g_pre, g_start, g_stop, g_paired, g_open, g_fate,
                   engine_vars, comp_vars>>

\* start_recording: self.is_recording = True
StartRecording_Flag ==
    /\ rec_pc = "start_flag"
    /\ is_recording' = TRUE
    /\ rec_pc' = "start_release"
    /\ UNCHANGED <<pre_buffer, recording_chunks, lock, cb_pc, cb_chunk,
                   n_chunks, chunks, audio_buf>>
    /\ UNCHANGED <<hist_vars, engine_vars, comp_vars>>

\* start_recording: with self._lock (exit), log, return
StartRecording_Release ==
    /\ rec_pc = "start_release"
    /\ lock' = "free"
    /\ rec_pc' = "start_done"
    /\ UNCHANGED <<pre_buffer, recording_chunks, is_recording, cb_pc, cb_chunk,
                   n_chunks, chunks, audio_buf>>
    /\ UNCHANGED <<hist_vars, engine_vars, comp_vars>>

StartRecording ==
    \/ StartRecording_Acquire
    \/ StartRecording_Copy
    \/ StartRecording_Clear
    \/ StartRecording_Flag
    \/ StartRecording_Release

\* stop_recording: with self._lock (enter)
StopRecording_Acquire ==
    /\ rec_pc = "stop_acquire"
    /\ LockAvailable
    /\ lock' = "caller"
    /\ rec_pc' = "stop_flag"
    /\ g_stop' = Len(routed)
    /\ g_paired' = g_open
    /\ g_open' = FALSE
    /\ UNCHANGED <<pre_buffer, recording_chunks, is_recording, cb_pc, cb_chunk,
                   n_chunks, chunks, audio_buf>>
    /\ UNCHANGED <<routed, g_pre, g_start, g_mark, g_fate, engine_vars,
                   comp_vars>>

\* stop_recording: self.is_recording = False
StopRecording_Flag ==
    /\ rec_pc = "stop_flag"
    /\ is_recording' = FALSE
    /\ rec_pc' = "stop_take"
    /\ g_mark' = IF is_recording THEN Len(routed) ELSE g_mark
    /\ UNCHANGED <<pre_buffer, recording_chunks, lock, cb_pc, cb_chunk,
                   n_chunks, chunks, audio_buf>>
    /\ UNCHANGED <<routed, g_pre, g_start, g_stop, g_paired, g_open, g_fate,
                   engine_vars, comp_vars>>

\* stop_recording: chunks = self.recording_chunks
StopRecording_Take ==
    /\ rec_pc = "stop_take"
    /\ chunks' = recording_chunks
    /\ rec_pc' = "stop_reset"
    /\ UNCHANGED <<pre_buffer, recording_chunks, is_recording, lock, cb_pc,
                   cb_chunk, n_chunks, audio_buf>>
    /\ UNCHANGED <<hist_vars, engine_vars, comp_vars>>

\* stop_recording without self.recording_chunks = []: the recorder keeps the
\* list it has handed out.
StopRecording_ResetMissing ==
    /\ rec_pc = "stop_reset"
    /\ rec_pc' = "stop_release"
    /\ UNCHANGED <<pre_buffer, recording_chunks, is_recording, lock, cb_pc,
                   cb_chunk, n_chunks, chunks, audio_buf>>
    /\ UNCHANGED <<hist_vars, engine_vars, comp_vars>>

\* stop_recording: self.recording_chunks = []
StopRecording_Reset ==
    /\ rec_pc = "stop_reset"
    /\ recording_chunks' = <<>>
    /\ rec_pc' = "stop_release"
    /\ UNCHANGED <<pre_buffer, is_recording, lock, cb_pc, cb_chunk, n_chunks,
                   chunks, audio_buf>>
    /\ UNCHANGED <<hist_vars, engine_vars, comp_vars>>

\* stop_recording: with self._lock (exit)
StopRecording_Release ==
    /\ rec_pc = "stop_release"
    /\ lock' = "free"
    /\ rec_pc' = "stop_build"
    /\ UNCHANGED <<pre_buffer, recording_chunks, is_recording, cb_pc, cb_chunk,
                   n_chunks, chunks, audio_buf>>
    /\ UNCHANGED <<hist_vars, engine_vars, comp_vars>>

\* stop_recording: if not chunks: return None; else build the WAV and return it
StopRecording_Build ==
    /\ rec_pc = "stop_build"
    /\ audio_buf' = StopResult(chunks)
    /\ rec_pc' = "stop_done"
    /\ g_fate' = [c \in DOMAIN g_fate |->
                     IF \E i \in 1..Len(audio_buf'.data) : audio_buf'.data[i] = c
                     THEN (IF g_fate[c] \in {"clip", "dup"}
                           THEN "dup" ELSE "clip")
                     ELSE g_fate[c]]
    /\ UNCHANGED <<pre_buffer, recording_chunks, is_recording, lock, cb_pc,
                   cb_chunk, n_chunks, chunks>>
    /\ UNCHANGED <<routed, g_pre, g_start, g_stop, g_paired, g_open, g_mark,
                   engine_vars, comp_vars>>

StopRecording ==
    \/ StopRecording_Acquire
    \/ StopRecording_Flag
    \/ StopRecording_Take
    \/ StopRecording_Reset
    \/ StopRecording_Release
    \/ StopRecording_Build

\* A stop_recording call has returned and its value was taken: its locals are
\* gone and the history of the call is dropped.
CallForgotten ==
    /\ chunks' = <<>>
    /\ audio_buf' = NoClip
    /\ g_pre' = <<>>
    /\ g_start' = IF g_start = -1 THEN -1 ELSE 0
    /\ g_stop' = 0
    /\ g_paired' = FALSE

\* A start_recording call has returned: nothing to drop.
CallKept == UNCHANGED <<chunks, audio_buf, g_pre, g_start, g_stop, g_paired>>

\* --------------------------------------------------------- UndertoneEngine

\* _on_record_start with the _transcribing test left out of its guard.
StartRejectedRecordingOnly == _recording

\* _on_record_start: if self._recording or self._transcribing: return
StartRejected == _recording \/ _transcribing

\* _on_record_stop with its guard left out.
StopRejectedNever == FALSE

\* _on_record_stop: if not self._recording: return
StopRejected == ~_recording

\* The listener thread delivers a start trigger (on_start).
StartTrigger ==
    /\ hk_pc = "idle"
    /\ session < MaxSessions
    /\ hk_pc' = "start_called"
    /\ UNCHANGED <<rec_vars, hist_vars, flag_vars, cfg_vars, comp_vars, tray_state,
                   session, worker_vars, count_vars, last_stop_empty>>

\* _on_record_start: the guard
OnRecordStart_Guard ==
    /\ hk_pc = "start_called"
    /\ hk_pc' = IF StartRejected THEN "idle" ELSE "start_set"
    /\ UNCHANGED <<rec_vars, hist_vars, flag_vars, cfg_vars, comp_vars, tray_state,
                   session, worker_vars, count_vars, last_stop_empty>>

\* _on_record_start: self._recording = True
OnRecordStart_SetFlag ==
    /\ hk_pc = "start_set"
    /\ _recording' = TRUE
    /\ session' = session + 1
    /\ last_stop_empty' = FALSE
    /\ hk_pc' = "start_cue"
    /\ UNCHANGED <<rec_vars, hist_vars, _transcribing, _using_fallback,
                   cfg_vars, comp_vars, tray_state, worker_vars, count_vars>>

\* _on_record_start: self.sounds.play_start()
OnRecordStart_Cue ==
    /\ hk_pc = "start_cue"
    /\ play_start_calls' = play_start_calls + 1
    /\ hk_pc' = "start_arm"
    /\ UNCHANGED <<rec_vars, hist_vars, flag_vars, cfg_vars, comp_vars, tray_state,
                   session, worker_vars, play_stop_calls, start_calls,
                   stop_calls, last_stop_empty>>

\* _on_record_start: self.recorder.start_recording() (the call)
OnRecordStart_Arm ==
    /\ hk_pc = "start_arm"
    /\ rec_pc = "none"
    /\ rec_pc' = "start_acquire"
    /\ start_calls' = start_calls + 1
    /\ hk_pc' = "start_armed"
    /\ UNCHANGED <<pre_buffer, recording_chunks, is_recording, lock, cb_pc,
                   cb_chunk, n_chunks, chunks, audio_buf>>
    /\ UNCHANGED <<hist_vars, flag_vars, cfg_vars, comp_vars, tray_state, session,
                   worker_vars, play_start_calls, play_stop_calls, stop_calls,
                   last_stop_empty>>

\* _on_record_start: start_recording has returned;
\* if self.tray: self.tray.set_state("recording")
OnRecordStart_Tray ==
    /\ hk_pc = "start_armed"
    /\ rec_pc = "start_done"
    /\ rec_pc' = "none"
    /\ tray_state' = IF tray THEN "recording" ELSE tray_state
    /\ hk_pc' = "idle"
    /\ UNCHANGED <<pre_buffer, recording_chunks, is_recording, lock, cb_pc,
                   cb_chunk, n_chunks, chunks, audio_buf>>
    /\ UNCHANGED <<hist_vars, flag_vars, cfg_vars, comp_vars, session, worker_vars,
                   count_vars, last_stop_empty>>

\* The listener thread delivers a stop trigger (on_stop).
StopTrigger ==
    /\ hk_pc = "idle"
    /\ hk_pc' = "stop_called"
    /\ UNCHANGED <<rec_vars, hist_vars, flag_vars, cfg_vars, comp_vars, tray_state,
                   session, worker_vars, count_vars, last_stop_empty>>

\* _on_record_stop: the guard
OnRecordStop_Guard ==
    /\ hk_pc = "stop_called"
    /\ hk_pc' = IF StopRejected THEN "idle" ELSE "stop_set"
    /\ UNCHANGED <<rec_vars, hist_vars, flag_vars, cfg_vars, comp_vars, tray_state,
                   session, worker_vars, count_vars, last_stop_empty>>

\* _on_record_stop: self._recording = False
OnRecordStop_SetFlag ==
    /\ hk_pc = "stop_set"
    /\ _recording' = FALSE
    /\ hk_pc' = "stop_cue"
    /\ UNCHANGED <<rec_vars, hist_vars, _transcribing, _using_fallback,
                   cfg_vars, comp_vars, tray_state, session, worker_vars, count_vars,
                   last_stop_empty>>

\* _on_record_stop: self.sounds.play_stop()
OnRecordStop_Cue ==
    /\ hk_pc = "stop_cue"
    /\ play_stop_calls' = play_stop_calls + 1
    /\ hk_pc' = "stop_call"
    /\ UNCHANGED <<rec_vars, hist_vars, flag_vars, cfg_vars, comp_vars, tray_state,
                   session, worker_vars, play_start_calls, start_calls,
                   stop_calls, last_stop_empty>>

\* _on_record_stop: audio_buf = self.recorder.stop_recording() (the call)
OnRecordStop_Call ==
    /\ hk_pc = "stop_call"
    /\ rec_pc = "none"
    /\ rec_pc' = "stop_acquire"
    /\ stop_calls' = stop_calls + 1
    /\ hk_pc' = "stop_wait"
    /\ UNCHANGED <<pre_buffer, recording_chunks, is_recording, lock, cb_pc,
                   cb_chunk, n_chunks, chunks, audio_buf>>
    /\ UNCHANGED <<hist_vars, flag_vars, cfg_vars, comp_vars, tray_state, session,
                   worker_vars, play_start_calls, play_stop_calls, start_calls,
                   last_stop_empty>>

\* _on_record_stop taking every returned value for a clip.
ClipIsNoneNever(buf) == FALSE

\* _on_record_stop: if audio_buf is None
ClipIsNone(buf) == buf.kind = "none"

\* _on_record_stop: stop_recording has returned; if audio_buf is None:
\* (tray "ready",) return; otherwise self._transcribing = True
OnRecordStop_Check ==
    /\ hk_pc = "stop_wait"
    /\ rec_pc = "stop_done"
    /\ rec_pc' = "none"
    /\ CallForgotten
    /\ IF ClipIsNone(audio_buf)
       THEN /\ tray_state' = IF tray THEN "ready" ELSE tray_state
            /\ last_stop_empty' = TRUE
            /\ hk_pc' = "idle"
            /\ UNCHANGED _transcribing
       ELSE /\ _transcribing' = TRUE
            /\ hk_pc' = "stop_tray"
            /\ UNCHANGED <<tray_state, last_stop_empty>>
    /\ UNCHANGED <<pre_buffer, recording_chunks, is_recording, lock, cb_pc,
                   cb_chunk, n_chunks>>
    /\ UNCHANGED <<routed, g_open, g_mark, g_fate, _recording, _using_fallback,
                   cfg_vars, comp_vars,
                   session, worker_vars, count_vars>>

\* _on_record_stop: if self.tray: self.tray.set_state("processing")
OnRecordStop_Tray ==
    /\ hk_pc = "stop_tray"
    /\ tray_state' = IF tray THEN "processing" ELSE tray_state
    /\ hk_pc' = "stop_spawn"
    /\ UNCHANGED <<rec_vars, hist_vars, flag_vars, cfg_vars, comp_vars, session,
                   worker_vars, count_vars, last_stop_empty>>

\* The pipeline run by the handler itself, to its end, instead of by a thread.
SpawnInline(s) ==
    /\ w_pc' = [w_pc EXCEPT ![s] = "done"]
    /\ _transcribing' = FALSE
    /\ hk_pc' = "idle"

\* threading.Thread(target=self._transcribe_and_type, ...).start(): the worker
\* of session s stands at the head of the pipeline and the handler returns.
Spawn(s) ==
    /\ w_pc' = [w_pc EXCEPT ![s] = "route"]
    /\ UNCHANGED _transcribing
    /\ hk_pc' = "idle"

\* _on_record_stop: the worker thread is started and the handler returns.
OnRecordStop_Spawn ==
    /\ hk_pc = "stop_spawn"
    /\ Spawn(session)
    /\ UNCHANGED <<rec_vars, hist_vars, _recording, _using_fallback, cfg_vars, comp_vars,
                   tray_state, session, w_text, w_fail, inject_calls, injected,
                   count_vars, last_stop_empty>>

\* ------------------------------------------------------------- transcriber

_RETRYABLE_STATUSES == {429, 500, 502, 503}
_MAX_RETRIES == 2

\* _BACKOFF_SCHEDULE = (0.3, 0.6), in tenths of a second
_BACKOFF_SCHEDULE == <<3, 6>>

\* HTTP statuses the cloud backend answers with: success, a client error that
\* is not retryable, and the retryable ones.
Statuses == {200, 401} \cup _RETRYABLE_STATUSES

\* Texts a backend produces before .strip().
RawTexts == {"", "  ", "raw", " raw "}

\* str.strip() on those texts.
Strip(t) == CASE t = "  " -> ""
              [] t = " raw " -> "raw"
              [] OTHER -> t

\* What one self._client.post(...) followed by resp.json()["text"] can do:
\* answer with a status (a 200 carries a text), answer 200 with a body that
\* is not the expected JSON, time out, or fail in another way.
Responses ==
    [kind : {"status"}, code : {200}, text : RawTexts]
        \cup [kind : {"status"}, code : Statuses \ {200}, text : {""}]
        \cup [kind : {"badjson"}, code : {200}, text : {""}]
        \cup [kind : {"timeout", "error"}, code : {0}, text : {""}]

\* What GroqTranscriber.transcribe did, step by step: a post, a sleep of so
\* many tenths of a second, and the return or raise that ends the call.
Posted(attempt) == [e |-> "post", n |-> attempt]
Slept(wait) == [e |-> "sleep", n |-> wait]
Ended(how) == [e |-> how, n |-> 0]

\* GroqTranscriber.transcribe returning or raising after `requests` posts and
\* the backoff waits `waits`; pos is where it left the clip's read position.
GroqReturn(text, requests, waits, pos, trace) ==
    [kind |-> "ok", text |-> text, exc |-> "none", requests |-> requests,
     waits |-> waits, pos |-> pos, trace |-> Append(trace, Ended("return"))]
GroqRaise(exc, requests, waits, pos, trace) ==
    [kind |-> "raise", text |-> "", exc |-> exc, requests |-> requests,
     waits |-> waits, pos |-> pos, trace |-> Append(trace, Ended("raise"))]

\* A retry budget of one retry.
RetryStatusOnce(r, attempt) ==
    r.kind = "status" /\ r.code \in _RETRYABLE_STATUSES /\ attempt < 1

\* Every error status retried.
RetryStatusAnyError(r, attempt) ==
    r.kind = "status" /\ r.code # 200 /\ attempt < _MAX_RETRIES

\* resp.status_code in _RETRYABLE_STATUSES and attempt < _MAX_RETRIES
RetryStatus(r, attempt) ==
    r.kind = "status" /\ r.code \in _RETRYABLE_STATUSES /\ attempt < _MAX_RETRIES

\* No exception retried.
RetryExceptionNever(r, attempt) == FALSE

\* except httpx.TimeoutException and except Exception: if attempt <
\* _MAX_RETRIES. A body that is not the expected JSON raises inside the try
\* block and lands in except Exception.
RetryException(r, attempt) ==
    r.kind \in {"timeout", "error", "badjson"} /\ attempt < _MAX_RETRIES

\* The first schedule entry before every retry.
BackoffConstant(attempt) == _BACKOFF_SCHEDULE[1]

\* wait = _BACKOFF_SCHEDULE[attempt]
Backoff(attempt) == _BACKOFF_SCHEDULE[attempt + 1]

\* The body of the for loop of GroqTranscriber.transcribe for one attempt and
\* the attempts after it. Every attempt rewinds the clip and posts it; the
\* post leaves the read position at read_to.
RECURSIVE GroqAttempt(_, _, _, _, _)
GroqAttempt(responses, read_to, attempt, waits, trace) ==
    LET r == responses[attempt + 1]
        requests == attempt + 1
        posted == Append(trace, Posted(attempt))
    IN  IF RetryStatus(r, attempt) \/ RetryException(r, attempt)
        THEN GroqAttempt(responses, read_to, attempt + 1,
                         Append(waits, Backoff(attempt)),
                         Append(posted, Slept(Backoff(attempt))))
        ELSE IF r.kind = "status" /\ r.code = 200
             THEN GroqReturn(Strip(r.text), requests, waits, read_to, posted)
        ELSE IF r.kind = "status"
             THEN GroqRaise("HTTPStatusError", requests, waits, read_to, posted)
        ELSE IF r.kind = "timeout"
             THEN GroqRaise("TimeoutException", requests, waits, read_to,
                            posted)
        ELSE GroqRaise("Exception", requests, waits, read_to, posted)

\* GroqTranscriber.transcribe
GroqTranscribe(api_key, responses, read_to) ==
    IF api_key = ""
    THEN GroqRaise("ValueError", 0, <<>>, "start", <<>>)
    ELSE GroqAttempt(responses, read_to, 0, <<>>, <<>>)

\* What the local model can do with a clip: give a text or raise.
LocalBehaviours ==
    [kind : {"ok"}, text : RawTexts] \cup {[kind |-> "raise", text |-> ""]}

\* LocalTranscriber.transcribe
LocalTranscribe(l) ==
    IF l.kind = "ok"
    THEN [kind |-> "ok", text |-> Strip(l.text)]
    ELSE [kind |-> "raise", text |-> ""]

\* route_transcription trying the cloud backend whatever the credential.
UsePrimaryAnyKey(primary, api_key) == primary = "groq"

\* route_transcription never trying the cloud backend.
UsePrimaryNever(primary, api_key) == FALSE

\* route_transcription: if primary == "groq" and groq.api_key
UsePrimary(primary, api_key) == primary = "groq" /\ api_key # ""

\* The except clause without audio_buf.seek(0).
RewindMissing(pos) == pos

\* route_transcription: audio_buf.seek(0) in the except clause
Rewind(pos) == "start"

\* A router that answers with an empty text when the local backend raises.
FallbackSwallowed(lr, calls) ==
    [kind |-> "ok", text |-> lr.text, source |-> "local", exc |-> "none",
     groq_calls |-> calls.groq_calls, local_calls |-> 1,
     requests |-> calls.requests, waits |-> calls.waits,
     pos_at_local |-> calls.pos]

\* route_transcription: text = local.transcribe(audio_buf); return text,
\* "local". Nothing catches what local.transcribe raises.
Fallback(lr, calls) ==
    [kind |-> lr.kind, text |-> lr.text, source |-> "local",
     exc |-> IF lr.kind = "raise" THEN "local" ELSE "none",
     groq_calls |-> calls.groq_calls, local_calls |-> 1,
     requests |-> calls.requests, waits |-> calls.waits,
     pos_at_local |-> calls.pos]

\* route_transcription(audio_buf, groq, local, config), with the clip at its
\* start as stop_recording returns it. The result says what the caller gets
\* (kind, text, source, exc) and what was done on the way: the calls of the
\* two backends, the HTTP requests and waits, and the clip's read position
\* when the local backend was called.
route_transcription(primary, api_key, responses, read_to, l) ==
    LET g == GroqTranscribe(api_key, responses, read_to)
        lr == LocalTranscribe(l)
    IN  IF UsePrimary(primary, api_key)
        THEN IF g.kind = "ok"
             THEN [kind |-> "ok", text |-> g.text, source |-> "groq",
                   exc |-> "none", groq_calls |-> 1, local_calls |-> 0,
                   requests |-> g.requests, waits |-> g.waits,
                   pos_at_local |-> "none"]
             ELSE Fallback(lr, [groq_calls |-> 1, requests |-> g.requests,
                                waits |-> g.waits, pos |-> Rewind(g.pos)])
        ELSE Fallback(lr, [groq_calls |-> 0, requests |-> 0, waits |-> <<>>,
                           pos |-> "start"])

\* config["stt"]["primary"] and groq.api_key
Primaries == {"groq", "local"}
ApiKeys == {"", "gsk"}

\* Where a post can leave the clip's read position.
ReadPositions == {"start", "end"}

\* The arguments of a route_transcription call and the behaviour of the two
\* backends during it.
RouteInputs ==
    [primary : Primaries, api_key : ApiKeys,
     responses : [1..(_MAX_RETRIES + 1) -> Responses],
     read_to : ReadPositions, local : LocalBehaviours]

\* route_transcription applied to such a call.
Route(in) ==
    route_transcription(in.primary, in.api_key, in.responses, in.read_to,
                        in.local)

\* rt_in and rt_out hold at most one element: the call and its result.
NoInput == <<>>
NoResult == <<>>

\* A call of route_transcription, start to end.
Route_Call ==
    /\ rt_in # NoInput
    /\ rt_out = NoResult
    /\ rt_out' = <<Route(rt_in[1])>>
    /\ UNCHANGED rt_in
    /\ UNCHANGED <<rec_vars, hist_vars, engine_vars, dev_vars, hkm_vars,
                   life_hist_vars, groq_vars, clean_vars>>

\* The credential of a GroqTranscriber.transcribe call and the behaviour of the
\* cloud backend during it.
GroqInputs ==
    [api_key : ApiKeys, responses : [1..(_MAX_RETRIES + 1) -> Responses],
     read_to : ReadPositions]

\* GroqTranscriber.transcribe applied to such a call.
Groq(in) == GroqTranscribe(in.api_key, in.responses, in.read_to)

\* A call of GroqTranscriber.transcribe, start to end.
Groq_Call ==
    /\ gq_in # NoInput
    /\ gq_out = NoResult
    /\ gq_out' = <<Groq(gq_in[1])>>
    /\ UNCHANGED gq_in
    /\ UNCHANGED <<rec_vars, hist_vars, engine_vars, dev_vars, hkm_vars,
                   life_hist_vars, router_vars, clean_vars>>

\* No call of GroqTranscriber.transcribe is under way.
GroqCallInit ==
    /\ gq_in = NoInput
    /\ gq_out = NoResult

\* No call of route_transcription is under way.
RouterInit ==
    /\ rt_in = NoInput
    /\ rt_out = NoResult

\* ----------------------------------------------------------------- cleanup
\* A text is a sequence of tokens. A token is one character, or one of the
\* strings the cleaner looks for as a whole: a <transcript> tag, a code fence,
\* a conversational prefix. No token is spelled by other tokens.

\* _CONVERSATIONAL_PREFIXES
_CONVERSATIONAL_PREFIXES ==
    {"Sure,", "Sure!", "Here is", "Here's", "I'd be happy to",
     "I would be happy to", "Of course", "Certainly", "Absolutely", "Let me",
     "The meaning of", "To fix", "You can", "I can", "I think"}

\* len() of those prefixes.
PrefixLen ==
    [x \in _CONVERSATIONAL_PREFIXES |->
        CASE x \in {"Sure,", "Sure!", "I can"} -> 5
          [] x \in {"Here's", "Let me", "To fix"} -> 6
          [] x \in {"Here is", "You can", "I think"} -> 7
          [] x \in {"Of course", "Certainly"} -> 9
          [] x = "Absolutely" -> 10
          [] x = "The meaning of" -> 14
          [] x = "I'd be happy to" -> 15
          [] x = "I would be happy to" -> 19]

OpenTag == "<transcript>"
CloseTag == "</transcript>"
\* The code fence: three backquotes.
Fence == "[fence]"
Newline == "\n"

\* len() of a token.
TokenLen(c) ==
    IF c \in _CONVERSATIONAL_PREFIXES THEN PrefixLen[c]
    ELSE IF c = OpenTag THEN 12
    ELSE IF c = CloseTag THEN 13
    ELSE IF c = Fence THEN 3
    ELSE 1

\* len() of a text.
RECURSIVE TextLen(_)
TextLen(t) == IF t = <<>> THEN 0 ELSE TokenLen(Head(t)) + TextLen(Tail(t))

\* \s of the regular expressions, and str.upper().
IsSpace(c) == c \in {" ", Newline}
Upper(c) == CASE c = "u" -> "U" [] c = "m" -> "M" [] c = "a" -> "A"
              [] OTHER -> c

\* str.strip()
RECURSIVE LStrip(_)
LStrip(t) == IF t # <<>> /\ IsSpace(Head(t)) THEN LStrip(Tail(t)) ELSE t
RECURSIVE RStrip(_)
RStrip(t) ==
    IF t # <<>> /\ IsSpace(t[Len(t)])
    THEN RStrip(SubSeq(t, 1, Len(t) - 1))
    ELSE t
Trim(t) == RStrip(LStrip(t))

\* The words of a text: its maximal runs of tokens that are not spaces.
RECURSIVE Words(_, _, _)
Words(t, cur, acc) ==
    IF t = <<>>
    THEN IF cur = <<>> THEN acc ELSE Append(acc, cur)
    ELSE IF IsSpace(Head(t))
         THEN Words(Tail(t), <<>>, IF cur = <<>> THEN acc ELSE Append(acc, cur))
         ELSE Words(Tail(t), Append(cur, Head(t)), acc)

\* FILLER_PATTERNS with re.IGNORECASE, on a word over the letters u, m, a:
\* \b(um+|uh+|er+|ah+)\b matches the words "um", "umm", ...; every other
\* pattern needs a letter that is not among them.
IsFiller(w) ==
    /\ Len(w) >= 2
    /\ Upper(w[1]) = "U"
    /\ \A i \in 2..Len(w) : Upper(w[i]) = "M"

\* The words joined by single spaces.
RECURSIVE Join(_)
Join(ws) ==
    IF ws = <<>> THEN <<>>
    ELSE IF Len(ws) = 1 THEN ws[1]
    ELSE ws[1] \o <<" ">> \o Join(Tail(ws))

\* TextCleaner._regex_clean: the fillers removed, the white space collapsed
\* and stripped, the first character in upper case, and a final period
\* unless the text ends with . ! or ?
_regex_clean(text) ==
    LET kept == SelectSeq(Words(text, <<>>, <<>>), LAMBDA w : ~IsFiller(w))
        cleaned == Join(kept)
        capital == IF cleaned = <<>> THEN cleaned
                   ELSE <<Upper(Head(cleaned))>> \o Tail(cleaned)
    IN  IF capital # <<>> /\ capital[Len(capital)] \notin {".", "!", "?"}
        THEN Append(capital, ".")
        ELSE capital

\* re.sub(r"</?transcript>", "", result)
RemoveTags(t) == SelectSeq(t, LAMBDA c : c \notin {OpenTag, CloseTag})

\* re.sub of an opening fence, its language word and one newline, at the
\* start of the text
RECURSIVE DropWordChars(_)
DropWordChars(t) ==
    IF t # <<>> /\ Head(t) \in {"u", "m", "a", "U", "M", "A"}
    THEN DropWordChars(Tail(t))
    ELSE t
RemoveOpeningFence(t) ==
    IF t # <<>> /\ Head(t) = Fence
    THEN LET rest == DropWordChars(Tail(t))
         IN  IF rest # <<>> /\ Head(rest) = Newline THEN Tail(rest) ELSE rest
    ELSE t

\* re.sub of one newline and a closing fence at the end of the text (the text
\* has no trailing white space here)
RemoveClosingFence(t) ==
    IF t # <<>> /\ t[Len(t)] = Fence
    THEN LET rest == SubSeq(t, 1, Len(t) - 1)
         IN  IF rest # <<>> /\ rest[Len(rest)] = Newline
             THEN SubSeq(rest, 1, Len(rest) - 1)
             ELSE rest
    ELSE t

\* TextCleaner._sanitize_response
_sanitize_response(result) ==
    Trim(RemoveClosingFence(RemoveOpeningFence(Trim(RemoveTags(result)))))

\* A _looks_like_chat that finds no prefix.
LooksLikeChatNever(result) == FALSE

\* TextCleaner._looks_like_chat: result.startswith(prefix) for some prefix
_looks_like_chat(result) ==
    result # <<>> /\ Head(result) \in _CONVERSATIONAL_PREFIXES

\* The length guard with both ends of the interval included.
RatioOkInclusive(r, t) ==
    LET tt == IF t > 1 THEN t ELSE 1
    IN  3 * tt <= 10 * r /\ r <= 2 * tt

\* 0.3 < len(result) / max(len(text), 1) < 2.0, in whole numbers (the
\* division of two lengths below 2^53 is rounded to the double nearest the
\* quotient, so it compares with 0.3 and 2.0 as the quotient does).
RatioOk(r, t) ==
    LET tt == IF t > 1 THEN t ELSE 1
    IN  3 * tt < 10 * r /\ r < 2 * tt

\* Python's None, and a value that is a text.
None == [some |-> FALSE, text |-> <<>>]

\* What the LLM request can do: fail in transport, answer an error status,
\* answer a body without choices[0].message.content, or answer a content.
LlmFailures == {"transport", "status", "malformed"}

\* The try block of _llm_clean: raise, or the checks on the content.
LlmTry(text, response) ==
    IF response.kind \in LlmFailures
    THEN [kind |-> "raise", value |-> None]
    ELSE LET result == _sanitize_response(Trim(response.content))
         IN  IF _looks_like_chat(result)
             THEN [kind |-> "return", value |-> None]
             ELSE IF result # <<>> /\ RatioOk(TextLen(result), TextLen(text))
                  THEN [kind |-> "return", value |-> [some |-> TRUE, text |-> result]]
                  ELSE [kind |-> "return", value |-> None]

\* _llm_clean without its except clause.
ExceptMissing(tried) == tried

\* _llm_clean: except Exception: return None
Except(tried) ==
    IF tried.kind = "raise" THEN [kind |-> "return", value |-> None] ELSE tried

\* A cleaner that is enabled by the flag alone.
LlmEnabledAnyKey(cfg) == cfg.llm_enabled

\* TextCleaner.__init__: self.llm_enabled = llm_enabled and bool(api_key);
\* the HTTP client exists exactly when it is true.
LlmEnabled(cfg) == cfg.llm_enabled /\ cfg.api_key # ""

\* TextCleaner._llm_clean: what it gives back and the requests it made.
_llm_clean(cfg, text, response) ==
    IF ~LlmEnabled(cfg)
    THEN [kind |-> "return", value |-> None, requests |-> 0]
    ELSE LET o == Except(LlmTry(text, response))
         IN  [kind |-> o.kind, value |-> o.value, requests |-> 1]

\* clean passing the LLM text through the regex stage.
LlmThenRegex(llm_result) == _regex_clean(llm_result)

\* clean: return llm_result
LlmReturned(llm_result) == llm_result

\* TextCleaner.clean: the text it returns (or the raise), the stage the text
\* comes from, and the LLM requests made.
clean(cfg, text, response) ==
    IF text = <<>>
    THEN [kind |-> "return", text |-> text, stage |-> "empty", requests |-> 0]
    ELSE LET l == IF LlmEnabled(cfg) THEN _llm_clean(cfg, text, response)
                  ELSE [kind |-> "return", value |-> None, requests |-> 0]
         IN  IF l.kind = "raise"
             THEN [kind |-> "raise", text |-> <<>>, stage |-> "llm",
                   requests |-> l.requests]
             ELSE IF l.value.some /\ l.value.text # <<>>
                  THEN [kind |-> "return", text |-> LlmReturned(l.value.text),
                        stage |-> "llm", requests |-> l.requests]
                  ELSE [kind |-> "return", text |-> _regex_clean(text),
                        stage |-> "regex", requests |-> l.requests]

\* All sequences over a set of tokens up to a length.
SeqsUpTo(S, n) == UNION {[1..k -> S] : k \in 0..n}

\* Transcribed texts: short texts over three letters and the space, a text
\* with a filler and a word, and a text of ten characters.
Texts ==
    SeqsUpTo({"u", "m", "a", " "}, MaxText)
        \cup {<<"u", "m", " ", "a">>,
              <<"a", "a", "a", "a", "a", "a", "a", "a", "a", "a">>}

\* The LLM's answer proper: a short tail over one letter and the space,
\* after a conversational prefix or not.
Bodies ==
    {p \o t : p \in {<<>>} \cup {<<x>> : x \in _CONVERSATIONAL_PREFIXES},
              t \in SeqsUpTo({"a", " "}, MaxTail)
                       \cup {<<"a", "a", "a">>, <<"a", "a", "a", "a">>}}

\* The answer as it arrives: bare, padded with white space, inside echoed
\* <transcript> tags, or inside a code fence with a language word.
Wrap(how, body) ==
    CASE how = "bare" -> body
      [] how = "padded" -> <<" ">> \o body \o <<" ", Newline>>
      [] how = "tagged" -> <<OpenTag>> \o body \o <<CloseTag>>
      [] how = "fenced" ->
             <<Fence, "a", Newline>> \o body \o <<Newline, Fence>>

LlmResponses ==
    {[kind |-> f, content |-> <<>>] : f \in LlmFailures}
        \cup {[kind |-> "content", content |-> Wrap(how, b)] :
                 how \in {"bare", "padded", "tagged", "fenced"},
                 b \in Bodies}

\* A clean call: the cleaner's configuration TextCleaner(api_key, model,
\* llm_enabled), the text, and what the LLM does if it is asked.
CleanInputs ==
    [cfg : [llm_enabled : BOOLEAN, api_key : ApiKeys],
     text : Texts, response : LlmResponses]

\* TextCleaner.clean applied to such a call.
Clean(in) == clean(in.cfg, in.text, in.response)

\* A call of TextCleaner.clean, start to end.
Clean_Call ==
    /\ cl_in # NoInput
    /\ cl_out = NoResult
    /\ cl_out' = <<Clean(cl_in[1])>>
    /\ UNCHANGED cl_in
    /\ UNCHANGED <<rec_vars, hist_vars, engine_vars, dev_vars, hkm_vars,
                   life_hist_vars, router_vars, groq_vars>>

\* No call of TextCleaner.clean is under way.
CleanCallInit ==
    /\ cl_in = NoInput
    /\ cl_out = NoResult

\* What route_transcription can do: return (text, source) or raise (the local
\* backend failed).
RouteOutcomes ==
    {[kind |-> Route(in).kind, text |-> Route(in).text,
      source |-> Route(in).source] : in \in RouteInputs}

\* What TextCleaner.clean can return for a non-empty text: the accepted LLM
\* text, or the regex result, which is empty when the text was all fillers.
CleanOutcomes == {"llm", "regex", ""}

\* What inject_text can do with a non-empty text: paste it, or raise before
\* the paste (a clipboard or key tool is missing or times out).
InjectOutcomes == {"pasted", "raise"}

\* An exception swallowed where it is raised: the pipeline goes on to inject.
AfterRaiseContinue == "inject"

\* An exception that escapes the worker: the thread dies, no finally clause.
AfterRaiseDies == "done"

\* _transcribe_and_type: except Exception: log.error(...), then the finally
\* clause.
AfterRaise == "finally"

\* The stages after route without the test of the text.
AfterRouteAnyText(text) == IF cleaner THEN "clean" ELSE "inject"

\* The stage that follows a successful route.
AfterRoute(text) ==
    IF text # "" THEN (IF cleaner THEN "clean" ELSE "inject") ELSE "finally"

\* _transcribe_and_type: text, source = route_transcription(...);
\* self._using_fallback = source == "local"; if text: ...
Worker_Route(s) ==
    /\ w_pc[s] = "route"
    /\ \E o \in RouteOutcomes :
         IF o.kind = "raise"
         THEN /\ w_fail' = [w_fail EXCEPT ![s] = "route"]
              /\ w_pc' = [w_pc EXCEPT ![s] = AfterRaise]
              /\ UNCHANGED <<_using_fallback, w_text>>
         ELSE /\ _using_fallback' = (o.source = "local")
              /\ w_text' = [w_text EXCEPT ![s] = o.text]
              /\ w_pc' = [w_pc EXCEPT ![s] = AfterRoute(o.text)]
              /\ UNCHANGED w_fail
    /\ UNCHANGED <<rec_vars, hist_vars, _recording, _transcribing, cfg_vars, comp_vars,
                   tray_state, hk_pc, session, inject_calls, injected,
                   count_vars, last_stop_empty>>

\* _transcribe_and_type: text = self.cleaner.clean(text)
Worker_Clean(s) ==
    /\ w_pc[s] = "clean"
    /\ \E t \in CleanOutcomes : w_text' = [w_text EXCEPT ![s] = t]
    /\ w_pc' = [w_pc EXCEPT ![s] = "inject"]
    /\ UNCHANGED <<rec_vars, hist_vars, flag_vars, cfg_vars, comp_vars, tray_state, hk_pc,
                   session, w_fail, inject_calls, injected, count_vars,
                   last_stop_empty>>

\* _transcribe_and_type: inject_text(text, restore_clipboard=...);
\* inject_text returns at once on an empty text.
Worker_Inject(s) ==
    /\ w_pc[s] = "inject"
    /\ inject_calls' = [inject_calls EXCEPT ![s] = @ + 1]
    /\ IF w_text[s] = ""
       THEN /\ w_pc' = [w_pc EXCEPT ![s] = "finally"]
            /\ UNCHANGED <<injected, w_fail>>
       ELSE \E o \in InjectOutcomes :
              IF o = "pasted"
              THEN /\ injected' = Append(injected, s)
                   /\ w_pc' = [w_pc EXCEPT ![s] = "finally"]
                   /\ UNCHANGED w_fail
              ELSE /\ w_fail' = [w_fail EXCEPT ![s] = "inject"]
                   /\ w_pc' = [w_pc EXCEPT ![s] = AfterRaise]
                   /\ UNCHANGED injected
    /\ UNCHANGED <<rec_vars, hist_vars, flag_vars, cfg_vars, comp_vars, tray_state, hk_pc,
                   session, w_text, count_vars, last_stop_empty>>

\* _transcribe_and_type: (except: log.error;) finally: self._transcribing = False
Worker_Finally(s) ==
    /\ w_pc[s] = "finally"
    /\ _transcribing' = FALSE
    /\ w_pc' = [w_pc EXCEPT ![s] = "tray"]
    /\ UNCHANGED <<rec_vars, hist_vars, _recording, _using_fallback, cfg_vars, comp_vars,
                   tray_state, hk_pc, session, w_text, w_fail, inject_calls,
                   injected, count_vars, last_stop_empty>>

\* _transcribe_and_type: if self.tray: self.tray.set_state("fallback" or "ready");
\* the thread ends and its locals are gone.
Worker_Tray(s) ==
    /\ w_pc[s] = "tray"
    /\ tray_state' = IF tray
                     THEN (IF _using_fallback THEN "fallback" ELSE "ready")
                     ELSE tray_state
    /\ w_pc' = [w_pc EXCEPT ![s] = "done"]
    /\ w_text' = [w_text EXCEPT ![s] = ""]
    /\ w_fail' = [w_fail EXCEPT ![s] = "none"]
    /\ inject_calls' = [inject_calls EXCEPT ![s] = 0]
    /\ UNCHANGED <<rec_vars, hist_vars, flag_vars, cfg_vars, comp_vars, hk_pc, session,
                   injected, count_vars, last_stop_empty>>

\* One step of the worker thread of session s.
Worker(s) ==
    \/ Worker_Route(s)
    \/ Worker_Clean(s)
    \/ Worker_Inject(s)
    \/ Worker_Finally(s)
    \/ Worker_Tray(s)

\* ------------------------------------------- the recorder under one client

\* A client thread calls recorder.start_recording().
Client_CallStart ==
    /\ rec_pc = "none"
    /\ rec_pc' = "start_acquire"
    /\ UNCHANGED <<pre_buffer, recording_chunks, is_recording, lock, cb_pc,
                   cb_chunk, n_chunks, chunks, audio_buf>>
    /\ UNCHANGED <<hist_vars, engine_vars, comp_vars>>

\* A client thread calls recorder.stop_recording().
Client_CallStop ==
    /\ rec_pc = "none"
    /\ rec_pc' = "stop_acquire"
    /\ UNCHANGED <<pre_buffer, recording_chunks, is_recording, lock, cb_pc,
                   cb_chunk, n_chunks, chunks, audio_buf>>
    /\ UNCHANGED <<hist_vars, engine_vars, comp_vars>>

\* The call returns to the client; a returned stop_recording ends the history
\* of its call.
Client_Return ==
    /\ rec_pc \in {"start_done", "stop_done"}
    /\ rec_pc' = "none"
    /\ IF rec_pc = "stop_done" THEN CallForgotten ELSE CallKept
    /\ UNCHANGED <<pre_buffer, recording_chunks, is_recording, lock, cb_pc,
                   cb_chunk, n_chunks>>
    /\ UNCHANGED <<routed, g_open, g_mark, g_fate, engine_vars, comp_vars>>

\* -------------------------------------------- AudioRecorder.open and close

\* AudioRecorder.open: a new InputStream is stored and started.
Open ==
    /\ stream' = "open"
    /\ dev_stops' = 0
    /\ dev_closes' = 0
    /\ close_run' = 0
    /\ UNCHANGED <<rec_vars, hist_vars, engine_vars, fn_vars>>
    /\ UNCHANGED <<hkm_vars, td_raised, stop_unstarted, n_events, ev, ev_cbs,
                   hold_starts>>

\* close() without its test of self.stream.
StreamPresentAlways == TRUE

\* AudioRecorder.close: if self.stream
StreamPresent == stream # "none"

\* AudioRecorder.close: stop and close the stream and forget it; calling
\* stop() on None raises AttributeError.
Close ==
    /\ IF StreamPresent
       THEN IF stream = "none"
            THEN /\ td_raised' = TRUE
                 /\ UNCHANGED dev_vars
            ELSE /\ dev_stops' = dev_stops + 1
                 /\ dev_closes' = dev_closes + 1
                 /\ stream' = "none"
                 /\ UNCHANGED td_raised
       ELSE UNCHANGED <<dev_vars, td_raised>>
    /\ close_run' = IF close_run < 2 THEN close_run + 1 ELSE 2
    /\ UNCHANGED <<rec_vars, hist_vars, engine_vars, fn_vars>>
    /\ UNCHANGED <<hkm_vars, stop_unstarted, n_events, ev, ev_cbs, hold_starts>>

\* ------------------------------------------------------------ HotkeyManager

\* The configured keys (config.py defaults) and any other key.
ptt_key == "ctrl_r"
toggle_key == "f8"
Keys == {ptt_key, toggle_key, "other"}

NoEvent == [kind |-> "none", key |-> "none", held |-> FALSE, active |-> FALSE]

\* A key event as the listener hands it to its handler.
Event(kind, key) ==
    [kind |-> kind, key |-> key, held |-> _ptt_held, active |-> _toggle_active]

\* HotkeyManager.start: a new listener is stored and started.
HotkeysStart ==
    /\ _listener' = "running"
    /\ UNCHANGED <<_ptt_held, _toggle_active, on_start_calls, on_stop_calls>>
    /\ UNCHANGED <<rec_vars, hist_vars, engine_vars, fn_vars>>
    /\ UNCHANGED <<dev_vars, life_hist_vars>>

\* HotkeyManager.stop: if self._listener
ListenerPresent == _listener # "none"

\* HotkeyManager.stop: the listener is stopped and kept; calling stop() on
\* None raises AttributeError.
HotkeysStop ==
    /\ IF ListenerPresent
       THEN IF _listener = "none"
            THEN /\ td_raised' = TRUE
                 /\ UNCHANGED _listener
            ELSE /\ _listener' = "stopped"
                 /\ UNCHANGED td_raised
       ELSE UNCHANGED <<_listener, td_raised>>
    /\ stop_unstarted' = (stop_unstarted \/ _listener = "none")
    /\ UNCHANGED <<_ptt_held, _toggle_active, on_start_calls, on_stop_calls>>
    /\ UNCHANGED <<rec_vars, hist_vars, engine_vars, fn_vars>>
    /\ UNCHANGED <<dev_vars, close_run, n_events, ev, ev_cbs, hold_starts>>

\* The handler calls self.on_start().
CallOnStart ==
    /\ on_start_calls' = on_start_calls + 1
    /\ UNCHANGED on_stop_calls
    /\ ev_cbs' = <<"on_start">>

\* The handler calls self.on_stop().
CallOnStop ==
    /\ on_stop_calls' = on_stop_calls + 1
    /\ UNCHANGED on_start_calls
    /\ ev_cbs' = <<"on_stop">>

\* The handler returns without calling a callback.
CallNothing ==
    /\ UNCHANGED <<on_start_calls, on_stop_calls>>
    /\ ev_cbs' = <<>>

\* _on_press: if key == self.ptt_key and not self._ptt_held
PttPressTaken(key) == key = ptt_key /\ ~_ptt_held

\* _on_release stopping without looking at the toggle.
PttReleaseStopsAlways == TRUE

\* _on_release never calling on_stop.
PttReleaseStopsNever == FALSE

\* _on_release: if not self._toggle_active
PttReleaseStops == ~_toggle_active

\* _on_press never switching the toggle off.
ToggleWasActiveNever == FALSE

\* _on_press: if self._toggle_active
ToggleWasActive == _toggle_active

\* HotkeyManager._on_press, called by the running listener for a press event
\* (the first press of a key or an auto-repeat of a held one).
OnPress(key) ==
    /\ _listener = "running"
    /\ n_events < MaxEvents
    /\ n_events' = n_events + 1
    /\ ev' = Event("press", key)
    /\ IF PttPressTaken(key)
       THEN /\ _ptt_held' = TRUE
            /\ UNCHANGED _toggle_active
            /\ IF ~_toggle_active THEN CallOnStart ELSE CallNothing
       ELSE IF key = toggle_key
            THEN /\ UNCHANGED _ptt_held
                 /\ IF ToggleWasActive
                    THEN /\ _toggle_active' = FALSE
                         /\ CallOnStop
                    ELSE /\ _toggle_active' = TRUE
                         /\ CallOnStart
            ELSE /\ UNCHANGED <<_ptt_held, _toggle_active>>
                 /\ CallNothing
    /\ hold_starts' = [hold_starts EXCEPT ![key] =
                          @ + (on_start_calls' - on_start_calls)]
    /\ UNCHANGED <<_listener, td_raised, close_run, stop_unstarted, dev_vars>>
    /\ UNCHANGED <<rec_vars, hist_vars, engine_vars, fn_vars>>

\* HotkeyManager._on_release, called by the running listener.
OnRelease(key) ==
    /\ _listener = "running"
    /\ n_events < MaxEvents
    /\ n_events' = n_events + 1
    /\ ev' = Event("release", key)
    /\ IF key = ptt_key /\ _ptt_held
       THEN /\ _ptt_held' = FALSE
            /\ IF PttReleaseStops THEN CallOnStop ELSE CallNothing
       ELSE /\ UNCHANGED _ptt_held
            /\ CallNothing
    /\ hold_starts' = [hold_starts EXCEPT ![key] = 0]
    /\ UNCHANGED <<_toggle_active, _listener, td_raised, close_run,
                   stop_unstarted, dev_vars>>
    /\ UNCHANGED <<rec_vars, hist_vars, engine_vars, fn_vars>>

\* ------------------------------- HotkeyManager wired to the engine
\* HotkeyManager(on_start=self._on_record_start, on_stop=self._on_record_stop):
\* the listener thread runs a key handler and, inside it, the engine's
\* trigger handler, before it takes the next key event.

\* What a key handler leaves alone, the call it makes apart.
key_kept_vars ==
    <<rec_vars, hist_vars, flag_vars, cfg_vars, tray_state, session,
      worker_vars, count_vars, last_stop_empty, dev_vars, _listener,
      on_start_calls, on_stop_calls, life_hist_vars, fn_vars>>

\* _on_press with on_start and on_stop bound to the engine: the latches are
\* set as in OnPress and the listener thread enters the engine's handler.
\* (A press that calls on_start is taken while the run has sessions left.)
WiredPress(key) ==
    /\ _listener = "running"
    /\ hk_pc = "idle"
    /\ IF PttPressTaken(key)
       THEN /\ _ptt_held' = TRUE
            /\ UNCHANGED _toggle_active
            /\ hk_pc' = IF ~_toggle_active THEN "start_called" ELSE "idle"
       ELSE IF key = toggle_key
            THEN /\ UNCHANGED _ptt_held
                 /\ IF ToggleWasActive
                    THEN /\ _toggle_active' = FALSE
                         /\ hk_pc' = "stop_called"
                    ELSE /\ _toggle_active' = TRUE
                         /\ hk_pc' = "start_called"
            ELSE UNCHANGED <<_ptt_held, _toggle_active, hk_pc>>
    /\ hk_pc' = "start_called" => session < MaxSessions
    /\ UNCHANGED key_kept_vars

\* _on_release with on_stop bound to the engine.
WiredRelease(key) ==
    /\ _listener = "running"
    /\ hk_pc = "idle"
    /\ IF key = ptt_key /\ _ptt_held
       THEN /\ _ptt_held' = FALSE
            /\ hk_pc' = IF PttReleaseStops THEN "stop_called" ELSE "idle"
       ELSE UNCHANGED <<_ptt_held, hk_pc>>
    /\ UNCHANGED <<_toggle_active, key_kept_vars>>

\* ------------------------------------------- UndertoneEngine run, shutdown

\* What run() and shutdown() leave alone.
run_kept_vars ==
    <<rec_vars, hist_vars, flag_vars, cleaner, tray, tray_state, hk_pc,
      session, worker_vars, count_vars, last_stop_empty, _ptt_held,
      _toggle_active, on_start_calls, on_stop_calls, life_hist_vars, fn_vars>>

\* UndertoneEngine.run: self.recorder.open(); self.hotkeys.start()
Run ==
    /\ _listener = "none"
    /\ released = <<>>
    /\ stream' = "open"
    /\ dev_stops' = 0
    /\ dev_closes' = 0
    /\ _listener' = "running"
    /\ UNCHANGED <<released, run_kept_vars>>

\* sys.exit(0) has been executed: the process is gone.
Exited == released # <<>> /\ released[Len(released)] = "exit"

\* shutdown: self.hotkeys.stop()
Shutdown_Hotkeys ==
    /\ released = <<>>
    /\ _listener' = IF ListenerPresent THEN "stopped" ELSE _listener
    /\ released' = <<"hotkeys.stop">>
    /\ UNCHANGED <<dev_vars, run_kept_vars>>

\* shutdown: self.recorder.close()
Shutdown_Recorder ==
    /\ released = <<"hotkeys.stop">>
    /\ IF StreamPresent
       THEN /\ dev_stops' = dev_stops + 1
            /\ dev_closes' = dev_closes + 1
            /\ stream' = "none"
       ELSE UNCHANGED dev_vars
    /\ released' = Append(released, "recorder.close")
    /\ UNCHANGED <<_listener, run_kept_vars>>

\* The calls shutdown makes after the recorder's close, the cleaner's client
\* forgotten.
CloseClientsNoCleaner == <<"groq.close", "exit">>

\* shutdown: self.groq.close(); if self.cleaner: self.cleaner.close();
\* sys.exit(0)
CloseClients ==
    <<"groq.close">> \o (IF cleaner THEN <<"cleaner.close">> ELSE <<>>)
        \o <<"exit">>

\* shutdown: the network clients are closed and the process exits. The three
\* statements touch nothing another thread reads and are taken as one step.
Shutdown_Exit ==
    /\ released = <<"hotkeys.stop", "recorder.close">>
    /\ released' = released \o CloseClients
    /\ UNCHANGED <<dev_vars, _listener, run_kept_vars>>

\* AudioRecorder.__init__ (self.stream = None)
DevInit ==
    /\ stream = "none"
    /\ dev_stops = 0
    /\ dev_closes = 0

\* HotkeyManager.__init__
HotkeysInit ==
    /\ _ptt_held = FALSE
    /\ _toggle_active = FALSE
    /\ _listener = "none"
    /\ on_start_calls = 0
    /\ on_stop_calls = 0
    /\ td_raised = FALSE
    /\ close_run = 0
    /\ stop_unstarted = FALSE
    /\ n_events = 0
    /\ ev = NoEvent
    /\ ev_cbs = <<>>
    /\ hold_starts = [k \in Keys |-> 0]

\* AudioRecorder.__init__
RecInit ==
    /\ pre_buffer = <<>>
    /\ recording_chunks = <<>>
    /\ is_recording = FALSE
    /\ lock = "free"
    /\ cb_pc = "idle"
    /\ cb_chunk = 0
    /\ n_chunks = 0
    /\ rec_pc = "none"
    /\ chunks = <<>>
    /\ audio_buf = NoClip
    /\ routed = <<>>
    /\ g_pre = <<>>
    /\ g_start = -1
    /\ g_stop = 0
    /\ g_paired = FALSE
    /\ g_open = FALSE
    /\ g_mark = 0
    /\ g_fate = [c \in 1..MaxChunks |-> "none"]

\* UndertoneEngine.__init__, as the engine's tests build it (collaborators
\* constructed, both flags false, no session yet).
EngineInit ==
    /\ _recording = FALSE
    /\ _transcribing = FALSE
    /\ _using_fallback = FALSE
    /\ cleaner \in BOOLEAN
    /\ tray \in BOOLEAN
    /\ tray_state = "ready"
    /\ hk_pc = "idle"
    /\ session = 0
    /\ w_pc = [s \in Sessions |-> "none"]
    /\ w_text = [s \in Sessions |-> ""]
    /\ w_fail = [s \in Sessions |-> "none"]
    /\ inject_calls = [s \in Sessions |-> 0]
    /\ injected = <<>>
    /\ play_start_calls = 0
    /\ play_stop_calls = 0
    /\ start_calls = 0
    /\ stop_calls = 0
    /\ last_stop_empty = FALSE
    /\ released = <<>>

Init ==
    /\ RecInit /\ EngineInit /\ DevInit /\ HotkeysInit
    /\ RouterInit /\ GroqCallInit /\ CleanCallInit

RecNext ==
    \/ AudioCallback_Copy
    \/ AudioCallback_Acquire
    \/ AudioCallback_Route
    \/ AudioCallback_Release
    \/ StartRecording_Acquire
    \/ StartRecording_Copy
    \/ StartRecording_Clear
    \/ StartRecording_Flag
    \/ StartRecording_Release
    \/ StopRecording_Acquire
    \/ StopRecording_Flag
    \/ StopRecording_Take
    \/ StopRecording_Reset
    \/ StopRecording_Release
    \/ StopRecording_Build
    \/ Client_CallStart
    \/ Client_CallStop
    \/ Client_Return

\* The recorder alone: the engine's variables keep their initial values.
RecOnlyInit == Init /\ cleaner = TRUE /\ tray = FALSE

RecSpec == RecOnlyInit /\ [][RecNext]_vars

Next ==
    \/ AudioCallback_Copy
    \/ AudioCallback_Acquire
    \/ AudioCallback_Route
    \/ AudioCallback_Release
    \/ StartRecording_Acquire
    \/ StartRecording_Copy
    \/ StartRecording_Clear
    \/ StartRecording_Flag
    \/ StartRecording_Release
    \/ StopRecording_Acquire
    \/ StopRecording_Flag
    \/ StopRecording_Take
    \/ StopRecording_Reset
    \/ StopRecording_Release
    \/ StopRecording_Build
    \/ StartTrigger
    \/ OnRecordStart_Guard
    \/ OnRecordStart_SetFlag
    \/ OnRecordStart_Cue
    \/ OnRecordStart_Arm
    \/ OnRecordStart_Tray
    \/ StopTrigger
    \/ OnRecordStop_Guard
    \/ OnRecordStop_SetFlag
    \/ OnRecordStop_Cue
    \/ OnRecordStop_Call
    \/ OnRecordStop_Check
    \/ OnRecordStop_Tray
    \/ OnRecordStop_Spawn
    \/ \E s \in Sessions : Worker_Route(s)
    \/ \E s \in Sessions : Worker_Clean(s)
    \/ \E s \in Sessions : Worker_Inject(s)
    \/ \E s \in Sessions : Worker_Finally(s)
    \/ \E s \in Sessions : Worker_Tray(s)

Spec == Init /\ [][Next]_vars

\* The recorder's stream and the hotkey manager on their own: open and close,
\* start and stop, and the key events the listener delivers.
LifeNext ==
    \/ Open
    \/ Close
    \/ HotkeysStart
    \/ HotkeysStop
    \/ \E key \in Keys : OnPress(key)
    \/ \E key \in Keys : OnRelease(key)

LifeSpec == RecOnlyInit /\ [][LifeNext]_vars

\* route_transcription on its own: one call for every choice of configuration,
\* credential and backend behaviour.
RouteInit ==
    /\ RecInit /\ EngineInit /\ DevInit /\ HotkeysInit
    /\ cleaner = TRUE /\ tray = FALSE
    /\ rt_in \in {<<in>> : in \in RouteInputs}
    /\ rt_out = NoResult
    /\ GroqCallInit /\ CleanCallInit

RouteNext == Route_Call

RouteSpec == RouteInit /\ [][RouteNext]_vars

\* GroqTranscriber.transcribe on its own: one call for every credential and
\* every sequence of backend responses.
GroqInit ==
    /\ RecInit /\ EngineInit /\ DevInit /\ HotkeysInit /\ RouterInit
    /\ cleaner = TRUE /\ tray = FALSE
    /\ gq_in \in {<<in>> : in \in GroqInputs}
    /\ gq_out = NoResult
    /\ CleanCallInit

GroqNext == Groq_Call

GroqSpec == GroqInit /\ [][GroqNext]_vars

\* TextCleaner.clean on its own: one call for every configuration, text and
\* LLM behaviour.
CleanInit ==
    /\ RecInit /\ EngineInit /\ DevInit /\ HotkeysInit
    /\ RouterInit /\ GroqCallInit
    /\ cleaner = TRUE /\ tray = FALSE
    /\ cl_in \in {<<in>> : in \in CleanInputs}
    /\ cl_out = NoResult

CleanNext == Clean_Call

CleanSpec == CleanInit /\ [][CleanNext]_vars

\* The tail of an accepted _on_record_stop, from self._transcribing = True to
\* the start of the worker thread.
StopHandlerTail == OnRecordStop_Tray \/ OnRecordStop_Spawn

\* The scheduler runs every thread that can run: a started worker takes its
\* next step, and the hotkey thread finishes the handler it is in. No stage
\* blocks for ever: every backend call returns or raises.
LiveSpec ==
    /\ Spec
    /\ \A s \in Sessions : WF_vars(Worker(s))
    /\ WF_vars(StopHandlerTail)

\* The engine from run() to shutdown(): the audio subsystem calls the callback
\* while the stream is open, the listener delivers triggers while it runs, the
\* handlers and the workers run as in Spec; shutdown() is called at any
\* moment by the thread of the tray menu (or by a test) and runs step by step
\* against the others, and nothing runs after sys.exit.
ShutNext ==
    \/ Run
    \/ Shutdown_Hotkeys
    \/ Shutdown_Recorder
    \/ Shutdown_Exit
    \/ ~Exited /\ stream = "open" /\ AudioCallback_Copy
    \/ ~Exited /\ AudioCallback_Acquire
    \/ ~Exited /\ AudioCallback_Route
    \/ ~Exited /\ AudioCallback_Release
    \/ ~Exited /\ StartRecording_Acquire
    \/ ~Exited /\ StartRecording_Copy
    \/ ~Exited /\ StartRecording_Clear
    \/ ~Exited /\ StartRecording_Flag
    \/ ~Exited /\ StartRecording_Release
    \/ ~Exited /\ StopRecording_Acquire
    \/ ~Exited /\ StopRecording_Flag
    \/ ~Exited /\ StopRecording_Take
    \/ ~Exited /\ StopRecording_Reset
    \/ ~Exited /\ StopRecording_Release
    \/ ~Exited /\ StopRecording_Build
    \/ ~Exited /\ _listener = "running" /\ StartTrigger
    \/ ~Exited /\ _listener = "running" /\ StopTrigger
    \/ ~Exited /\ OnRecordStart_Guard
    \/ ~Exited /\ OnRecordStart_SetFlag
    \/ ~Exited /\ OnRecordStart_Cue
    \/ ~Exited /\ OnRecordStart_Arm
    \/ ~Exited /\ OnRecordStart_Tray
    \/ ~Exited /\ OnRecordStop_Guard
    \/ ~Exited /\ OnRecordStop_SetFlag
    \/ ~Exited /\ OnRecordStop_Cue
    \/ ~Exited /\ OnRecordStop_Call
    \/ ~Exited /\ OnRecordStop_Check
    \/ ~Exited /\ OnRecordStop_Tray
    \/ ~Exited /\ OnRecordStop_Spawn
    \/ ~Exited /\ \E s \in Sessions : Worker_Route(s)
    \/ ~Exited /\ \E s \in Sessions : Worker_Clean(s)
    \/ ~Exited /\ \E s \in Sessions : Worker_Inject(s)
    \/ ~Exited /\ \E s \in Sessions : Worker_Finally(s)
    \/ ~Exited /\ \E s \in Sessions : Worker_Tray(s)

ShutSpec == Init /\ [][ShutNext]_vars

\* The engine as run() leaves it, driven by key events: the listener thread
\* takes a key event when it is in no handler, and the handlers, the workers
\* and the audio callback run as in Spec.
WiredNext ==
    \/ Run
    \/ \E key \in Keys : WiredPress(key)
    \/ \E key \in Keys : WiredRelease(key)
    \/ stream = "open" /\ AudioCallback_Copy
    \/ AudioCallback_Acquire
    \/ AudioCallback_Route
    \/ AudioCallback_Release
    \/ StartRecording_Acquire
    \/ StartRecording_Copy
    \/ StartRecording_Clear
    \/ StartRecording_Flag
    \/ StartRecording_Release
    \/ StopRecording_Acquire
    \/ StopRecording_Flag
    \/ StopRecording_Take
    \/ StopRecording_Reset
    \/ StopRecording_Release
    \/ StopRecording_Build
    \/ OnRecordStart_Guard
    \/ OnRecordStart_SetFlag
    \/ OnRecordStart_Cue
    \/ OnRecordStart_Arm
    \/ OnRecordStart_Tray
    \/ OnRecordStop_Guard
    \/ OnRecordStop_SetFlag
    \/ OnRecordStop_Cue
    \/ OnRecordStop_Call
    \/ OnRecordStop_Check
    \/ OnRecordStop_Tray
    \/ OnRecordStop_Spawn
    \/ \E s \in Sessions : Worker_Route(s)
    \/ \E s \in Sessions : Worker_Clean(s)
    \/ \E s \in Sessions : Worker_Inject(s)
    \/ \E s \in Sessions : Worker_Finally(s)
    \/ \E s \in Sessions : Worker_Tray(s)

WiredSpec == Init /\ [][WiredNext]_vars

\* ================================================================== claims

\* The hotkey thread takes a step.
HotkeyStep == hk_pc' # hk_pc

\* Sessions whose transcribe-and-inject pipeline has started and has not
\* reached the end of its finally clause.
PipelineInFlight == {s \in Sessions : w_pc[s] \in {"route", "clean", "inject", "finally"}}

\* The engine's state as its flags give it.
Idle == ~_recording /\ ~_transcribing

\* The chunks of a returned clip (none for the no-clip value).
ClipChunks(buf) == IF buf.kind = "clip" THEN buf.data ELSE <<>>

\* Positions of start_recording inside its critical section.
StartCritical == {"start_copy", "start_clear", "start_flag", "start_release"}

\* ---- C1
\* The sessions in `injected` appear in increasing order, each at most once.
InjectedInOrder ==
    \A i, j \in 1..Len(injected) : i < j => injected[i] < injected[j]

\* A step that accepts a start trigger, turns the engine to Recording or calls
\* recorder.start_recording is taken with no pipeline in flight, no worker
\* waiting to be spawned and no session recording.
StartOnlyWhenFree ==
    (\/ (hk_pc = "start_called" /\ hk_pc' = "start_set")
     \/ (~_recording /\ _recording')
     \/ start_calls' # start_calls)
    => /\ PipelineInFlight = {}
       /\ ~_transcribing
       /\ ~is_recording

\* C1: at most one recording session is processed at a time: never two
\* pipelines in flight, never a pipeline in flight while the engine or the
\* recorder records, no start accepted before the previous pipeline has
\* finished, and the pasted outputs follow the sessions' order.
C1_OneSessionAtATime ==
    /\ [](Cardinality(PipelineInFlight) <= 1)
    /\ [](PipelineInFlight # {} => _transcribing /\ ~_recording /\ ~is_recording)
    /\ [](\A s \in PipelineInFlight : s = session)
    /\ []InjectedInOrder
    /\ [][StartOnlyWhenFree]_vars

\* C1 witness: a start trigger has arrived while the pipeline of the session
\* before is about to inject.
C1_Witness ==
    /\ hk_pc = "start_called"
    /\ \E s \in Sessions : w_pc[s] = "inject" /\ w_text[s] # ""

\* ---- C2
\* The guard step of _on_record_start: a rejected trigger returns at once and
\* changes nothing; an accepted one goes on to set the flag.
StartGuardStep ==
    (hk_pc = "start_called" /\ HotkeyStep) =>
        IF _recording \/ _transcribing
        THEN /\ hk_pc' = "idle"
             /\ UNCHANGED <<rec_vars, hist_vars, flag_vars, tray_state, session,
                            worker_vars, count_vars>>
        ELSE hk_pc' = "start_set"

\* The return of an accepted _on_record_start: the engine is Recording, the
\* recorder is armed, and cue and arming were done once for this session.
StartReturnStep ==
    (hk_pc = "start_armed" /\ HotkeyStep) =>
        /\ hk_pc' = "idle"
        /\ _recording'
        /\ is_recording'
        /\ play_start_calls' = session'
        /\ start_calls' = session'

\* C2: a start trigger met while Recording or Transcribing is a no-op; met
\* while Idle it sets Recording, plays the start cue and arms the recorder,
\* each exactly once per accepted trigger.
C2_StartTrigger ==
    /\ [][StartGuardStep]_vars
    /\ [][StartReturnStep]_vars
    /\ [](hk_pc \notin {"start_set", "start_cue", "start_arm", "start_armed"} =>
            play_start_calls = session /\ start_calls = session)

\* C2 witness: a start trigger is about to be rejected while Transcribing,
\* after an accepted one was cued and armed.
C2_Witness ==
    /\ hk_pc = "start_called"
    /\ _transcribing
    /\ play_start_calls = 1
    /\ start_calls = 1

\* ---- C3
\* The guard step of _on_record_stop when the engine is not Recording.
StopGuardStep ==
    (hk_pc = "stop_called" /\ HotkeyStep /\ ~_recording) =>
        /\ hk_pc' = "idle"
        /\ UNCHANGED <<rec_vars, hist_vars, flag_vars, tray_state, session,
                       worker_vars, count_vars>>

\* C3: a stop trigger met while not Recording is a no-op: no stop_recording
\* call, no stop cue, no worker, flags unchanged; stop_recording and the stop
\* cue are called once per accepted stop, which a start precedes.
C3_StopTriggerIgnored ==
    /\ [][StopGuardStep]_vars
    /\ [](stop_calls <= session /\ play_stop_calls <= session)

\* C3 witness: a stop trigger is about to be ignored while Transcribing.
C3_Witness ==
    /\ hk_pc = "stop_called"
    /\ ~_recording
    /\ _transcribing

\* ---- C4
\* The step of _on_record_stop that gets the no-clip value: the handler
\* returns, the engine is Idle, no worker is spawned, nothing is injected.
EmptyClipStep ==
    (hk_pc = "stop_wait" /\ HotkeyStep /\ audio_buf.kind = "none") =>
        /\ hk_pc' = "idle"
        /\ ~_recording'
        /\ ~_transcribing'
        /\ UNCHANGED worker_vars

\* After an empty stop the next start trigger passes the guard.
StartAfterEmptyStep ==
    (last_stop_empty /\ hk_pc = "start_called" /\ HotkeyStep) =>
        hk_pc' = "start_set"

\* C4: a stop trigger whose recording holds no clip takes the engine from
\* Recording straight to Idle: _transcribing is never set for that session, no
\* worker is spawned, nothing is injected, and the next start is accepted.
C4_EmptyClipToIdle ==
    /\ [][EmptyClipStep]_vars
    /\ [][StartAfterEmptyStep]_vars
    /\ [](last_stop_empty =>
            /\ Idle
            /\ w_pc[session] = "none"
            /\ \A i \in 1..Len(injected) : injected[i] # session)

\* C4 witness: after a stop that got no clip, a start trigger has arrived.
C4_Witness ==
    /\ last_stop_empty
    /\ hk_pc = "start_called"
    /\ stop_calls = 1

\* ---- C5
\* Once a stage of session s has raised, inject_text is not called for s, no
\* text of s is pasted, and the worker ends by clearing _transcribing.
NoInjectAfterFailure ==
    \A s \in Sessions :
        w_fail[s] # "none" =>
            /\ inject_calls'[s] <= inject_calls[s]
            /\ (injected' = injected \/ injected'[Len(injected')] # s)
            /\ w_pc'[s] \in {"finally", "tray", "done"}
            /\ (w_pc[s] = "finally" /\ w_pc'[s] # "finally" => ~_transcribing')

\* C5: an exception of any stage is caught in the worker; after it inject_text
\* is not called for that session (never at all when route failed) and the
\* worker leaves _transcribing false.
C5_AllOrNothing ==
    /\ [][NoInjectAfterFailure]_vars
    /\ [](\A s \in Sessions :
            w_fail[s] # "none" => w_pc[s] \in {"finally", "tray"})
    /\ [](\A s \in Sessions :
            w_fail[s] = "route" =>
                /\ inject_calls[s] = 0
                /\ \A i \in 1..Len(injected) : injected[i] # s)

\* C5 witness: the pipeline of a session whose route raised has ended, the
\* engine is Idle and nothing was injected.
C5_Witness ==
    \E s \in Sessions :
        /\ w_fail[s] = "route"
        /\ w_pc[s] = "tray"
        /\ Idle
        /\ injected = <<>>

\* ---- C6
\* In Idle a start trigger passes the guard.
StartAcceptedWhenIdle ==
    (hk_pc = "start_called" /\ HotkeyStep /\ Idle) => hk_pc' = "start_set"

\* C6: every session that enters Transcribing returns to Idle, whether its
\* pipeline succeeds or raises, and in Idle a start trigger is accepted.
C6_TranscribingReturnsToIdle ==
    /\ _transcribing ~> Idle
    /\ [][StartAcceptedWhenIdle]_vars

\* C6 witness: a session's pipeline raised, the engine went back to Idle and
\* accepted the start of the next session.
C6_Witness ==
    \E s \in Sessions :
        /\ w_fail[s] # "none"
        /\ w_pc[s] = "tray"
        /\ session > s
        /\ _recording

\* ---- C7
\* A step that runs a network stage (route, clean) of a pipeline is no step of
\* the hotkey thread, of the audio callback or of a recorder method.
NetworkStepOffThreads ==
    (\E s \in Sessions : w_pc[s] \in {"route", "clean"} /\ w_pc'[s] # w_pc[s]) =>
        /\ hk_pc' = hk_pc
        /\ cb_pc' = cb_pc
        /\ rec_pc' = rec_pc
        /\ lock' = lock

\* The last step of an accepted _on_record_stop returns with the pipeline
\* still at its head: the handler ran no stage of it and waited for none.
StopReturnsAtOnce ==
    (hk_pc = "stop_spawn" /\ HotkeyStep) =>
        /\ hk_pc' = "idle"
        /\ w_pc'[session] = "route"
        /\ _transcribing'

\* C7: transcription and cleanup run in steps of the session's worker only,
\* never in a step of the hotkey thread or the audio callback, and the stop
\* handler returns without waiting for the pipeline; no thread holds the
\* recorder's lock across a network stage it runs.
C7_NetworkOffCallbackThreads ==
    /\ [][NetworkStepOffThreads]_vars
    /\ [][StopReturnsAtOnce]_vars

\* C7 witness: the hotkey thread handles a further trigger and the audio
\* callback routes a chunk while a worker is in its network stage.
C7_Witness ==
    /\ hk_pc = "stop_called"
    /\ cb_pc = "route"
    /\ \E s \in Sessions : w_pc[s] = "clean"

\* ---- C8
\* C8: the clip a stop_recording returns after a start_recording is the
\* pre-buffer as it was when start_recording took the lock, followed by the
\* chunks the callback routed between the two critical sections, in capture
\* order, each exactly once.
C8_ClipIsPreRollThenWindow ==
    (rec_pc = "stop_done" /\ g_paired) =>
        ClipChunks(audio_buf) = g_pre \o SubSeq(routed, g_start + 1, g_stop)

\* C8 witness: a returned clip that holds pre-roll and chunks of the window,
\* with a chunk routed after the stop that is not part of it.
C8_Witness ==
    /\ rec_pc = "stop_done"
    /\ g_paired
    /\ g_pre # <<>>
    /\ g_stop > g_start
    /\ Len(routed) > g_stop
    /\ audio_buf.kind = "clip"

\* ---- C9
\* A step taken while start_recording is inside its critical section routes no
\* chunk and leaves the lock with start_recording until it leaves.
StartCriticalStep ==
    rec_pc \in StartCritical =>
        /\ routed' = routed
        /\ (rec_pc' \in StartCritical => lock' = "caller")

\* C9: start_recording is one critical section: when it leaves the section
\* is_recording is true, the accumulation is the whole pre-buffer as found, in
\* order, and the pre-buffer is empty; while it is inside, the callback holds
\* no lock and routes no chunk.
C9_StartRecordingAtomic ==
    /\ [](rec_pc = "start_release" =>
            /\ is_recording
            /\ recording_chunks = g_pre
            /\ pre_buffer = <<>>)
    /\ [](rec_pc \in StartCritical =>
            lock = "caller" /\ cb_pc \notin {"route", "release"})
    /\ [][StartCriticalStep]_vars

\* C9 witness: start_recording about to leave its critical section with a
\* non-empty pre-roll while the callback waits for the lock with a chunk.
C9_Witness ==
    /\ rec_pc = "start_release"
    /\ g_pre # <<>>
    /\ cb_pc = "acquire"

\* ---- C10
\* C10: a stop_recording that found zero accumulated chunks returns the
\* no-clip value (it does not raise), and on return is_recording is false and
\* the accumulation is empty.
C10_StopWithoutAudio ==
    (rec_pc = "stop_done" /\ chunks = <<>>) =>
        /\ audio_buf = NoClip
        /\ ~is_recording
        /\ recording_chunks = <<>>

\* C10 witness: stop_recording returns on a recorder that was never started,
\* after the callback has delivered chunks.
C10_Witness ==
    /\ rec_pc = "stop_done"
    /\ chunks = <<>>
    /\ g_start = -1
    /\ routed # <<>>

\* ---- C11
\* The last n elements of a sequence (all of it when it is shorter).
LastN(q, n) == IF Len(q) <= n THEN q ELSE SubSeq(q, Len(q) - n + 1, Len(q))

\* C11 as stated: whenever the recorder's lock is free, the pre-buffer holds
\* the most recent maxlen chunks the callback delivered (all of them if
\* fewer), whatever recordings were started and stopped before.
C11_Original ==
    lock = "free" => pre_buffer = LastN(routed, maxlen)

\* C11 amended: in every state the pre-buffer holds the most recent maxlen
\* chunks delivered since start_recording last drained it or a recording was
\* last stopped (all of those if fewer); while recording it is empty.
C11_PreBufferRecentSinceDrain ==
    /\ is_recording => pre_buffer = <<>>
    /\ ~is_recording =>
           pre_buffer = LastN(SubSeq(routed, g_mark + 1, Len(routed)), maxlen)

\* C11 witness: after a start_recording and a stop_recording the callback has
\* delivered more than maxlen chunks and the oldest was evicted.
C11_Witness ==
    /\ g_start = 0
    /\ ~is_recording
    /\ Len(routed) - g_mark > maxlen
    /\ Len(pre_buffer) = maxlen

\* ---- C12
\* A close() step that finds a stream, and one that finds none.
CloseStep ==
    Close => /\ stream' = "none"
             /\ td_raised' = td_raised
             /\ (stream = "none" => UNCHANGED dev_vars)

\* A stop() step of a manager that was never started.
StopUnstartedStep ==
    HotkeysStop /\ _listener = "none" =>
        UNCHANGED <<hkm_vars, td_raised>>

\* C12: close() never raises and leaves self.stream None, whether a stream
\* was open, was closed already or was never opened, and every InputStream is
\* stopped and closed at most once; stop() on a HotkeyManager that was never
\* started does not raise and changes nothing.
C12_TeardownIdempotent ==
    /\ [](~td_raised /\ dev_stops <= 1 /\ dev_closes <= 1)
    /\ [](close_run > 0 => stream = "none")
    /\ [][CloseStep]_vars
    /\ [][StopUnstartedStep]_vars

\* C12 witness: an opened stream was closed twice in a row, and stop() was
\* called on a manager never started.
C12_Witness ==
    /\ close_run = 2
    /\ dev_stops = 1
    /\ dev_closes = 1
    /\ stream = "none"
    /\ stop_unstarted
    /\ _listener = "none"

\* ---- C13
\* The listener delivers an event of the given kind for the given key.
EventStep(kind, key) ==
    /\ n_events' = n_events + 1
    /\ ev'.kind = kind
    /\ ev'.key = key

\* What a handler that may call one callback did.
Called(cb, cond) ==
    /\ ev_cbs' = IF cond THEN <<cb>> ELSE <<>>
    /\ on_start_calls' =
           on_start_calls + (IF cond /\ cb = "on_start" THEN 1 ELSE 0)
    /\ on_stop_calls' =
           on_stop_calls + (IF cond /\ cb = "on_stop" THEN 1 ELSE 0)

PttPressStep ==
    EventStep("press", ptt_key) /\ ~_ptt_held =>
        /\ _ptt_held'
        /\ _toggle_active' = _toggle_active
        /\ Called("on_start", ~_toggle_active)

PttReleaseHeldStep ==
    EventStep("release", ptt_key) /\ _ptt_held =>
        /\ ~_ptt_held'
        /\ _toggle_active' = _toggle_active
        /\ Called("on_stop", ~_toggle_active)

PttReleaseNotHeldStep ==
    EventStep("release", ptt_key) /\ ~_ptt_held =>
        /\ UNCHANGED hkm_vars
        /\ ev_cbs' = <<>>

\* C13: a push-to-talk press while _ptt_held is false sets _ptt_held and
\* calls on_start exactly when _toggle_active is false; a release while
\* _ptt_held is true clears it and calls on_stop exactly when _toggle_active
\* is false; a release while _ptt_held is false changes nothing and calls
\* nothing.
C13_PushToTalkTransitions ==
    /\ [][PttPressStep]_vars
    /\ [][PttReleaseHeldStep]_vars
    /\ [][PttReleaseNotHeldStep]_vars

\* C13 witness: the push-to-talk key was released while held with the toggle
\* off, and on_stop was called.
C13_Witness ==
    /\ ev.kind = "release"
    /\ ev.key = ptt_key
    /\ ev.held
    /\ ~ev.active
    /\ ev_cbs = <<"on_stop">>
    /\ ~_ptt_held

\* ---- C14
TogglePressStep ==
    EventStep("press", toggle_key) =>
        /\ _toggle_active' = ~_toggle_active
        /\ Called(IF _toggle_active' THEN "on_start" ELSE "on_stop", TRUE)
        /\ _ptt_held' = _ptt_held

\* C14: every press event of the toggle key flips _toggle_active and calls
\* exactly one callback, on_start when the flag becomes true and on_stop when
\* it becomes false; _ptt_held keeps its value.
C14_ToggleFlips == [][TogglePressStep]_vars

\* C14 witness: a toggle press switched the toggle off while push-to-talk was
\* held, and on_stop was called.
C14_Witness ==
    /\ ev.kind = "press"
    /\ ev.key = toggle_key
    /\ ev.active
    /\ ev.held
    /\ ~_toggle_active
    /\ _ptt_held
    /\ ev_cbs = <<"on_stop">>

\* ---- C15
\* While the toggle is on, an event other than a toggle press.
ToggleHoldsStep ==
    /\ _toggle_active
    /\ n_events' = n_events + 1
    /\ ~EventStep("press", toggle_key)
    => /\ _toggle_active'
       /\ on_stop_calls' = on_stop_calls
       /\ "on_stop" \notin {ev_cbs'[i] : i \in 1..Len(ev_cbs')}

\* C15: once a toggle press has set _toggle_active, no push-to-talk press or
\* release calls on_stop, and the flag stays set, until the toggle key is
\* pressed again; a push-to-talk release that finds _toggle_active true
\* never calls on_stop.
C15_TogglePrecedence ==
    /\ [][ToggleHoldsStep]_vars
    /\ [](ev.kind = "release" /\ ev.active => ev_cbs = <<>>)

\* C15 witness: with the toggle on, the push-to-talk key was pressed and then
\* released while held, and no callback was called.
C15_Witness ==
    /\ ev.kind = "release"
    /\ ev.key = ptt_key
    /\ ev.held
    /\ ev.active
    /\ _toggle_active
    /\ ev_cbs = <<>>
    /\ on_stop_calls = 0

\* ---- C16
\* C16: press events of one key with no release of that key in between call
\* on_start at most once.
C16_OneStartPerHold ==
    \A k \in Keys : hold_starts[k] <= 1

\* ---- C17
\* The finished call of route_transcription: its inputs, its result, and what
\* the two backends do when called with those inputs.
RouteDone == rt_out # NoResult
RtIn == rt_in[1]
RtOut == rt_out[1]
RtGroq == GroqTranscribe(RtIn.api_key, RtIn.responses, RtIn.read_to)
RtLocal == LocalTranscribe(RtIn.local)
RtPrimaryOn == RtIn.primary = "groq" /\ RtIn.api_key # ""

\* C17: with primary "groq" and a credential the router calls the cloud
\* backend, once and before anything else; if that call returns a text the
\* router returns that text tagged "groq" and never calls the local backend.
C17_PrimarySuccess ==
    RouteDone /\ RtPrimaryOn =>
        /\ RtOut.groq_calls = 1
        /\ RtOut.requests = RtGroq.requests
        /\ RtOut.local_calls = 1 => RtGroq.kind = "raise"
        /\ RtGroq.kind = "ok" =>
              /\ RtOut.kind = "ok"
              /\ RtOut.text = RtGroq.text
              /\ RtOut.source = "groq"
              /\ RtOut.local_calls = 0

\* C17 witness: the cloud backend answered after two retries and the router
\* returned its text.
C17_Witness ==
    /\ RouteDone
    /\ RtPrimaryOn
    /\ RtOut.requests = 3
    /\ RtOut.kind = "ok"
    /\ RtOut.text = "raw"
    /\ RtOut.source = "groq"
    /\ RtIn.local.kind = "raise"

\* ---- C18
\* C18: if the cloud call raises, whatever the error, the router rewinds the
\* clip, calls the local backend exactly once with the clip at position 0 and
\* returns the local text tagged "local"; the cloud error never reaches the
\* caller.
C18_PrimaryFailure ==
    RouteDone /\ RtPrimaryOn /\ RtGroq.kind = "raise" =>
        /\ RtOut.local_calls = 1
        /\ RtOut.pos_at_local = "start"
        /\ RtOut.exc \in {"none", "local"}
        /\ RtOut.source = "local"
        /\ RtLocal.kind = "ok" =>
              /\ RtOut.kind = "ok"
              /\ RtOut.text = RtLocal.text
              /\ RtOut.exc = "none"

\* C18 witness: the cloud backend answered 401 after reading the clip to its
\* end, and the router returned the local text.
C18_Witness ==
    /\ RouteDone
    /\ RtPrimaryOn
    /\ RtIn.responses[1].code = 401
    /\ RtIn.read_to = "end"
    /\ RtGroq.exc = "HTTPStatusError"
    /\ RtOut.requests = 1
    /\ RtOut.kind = "ok"
    /\ RtOut.text = "raw"
    /\ RtOut.source = "local"

\* ---- C19
\* For every call in which the local backend is called and raises,
\* route_transcription raises that error.
LocalFailurePropagates ==
    \A in \in RouteInputs :
        Route(in).local_calls = 1 /\ in.local.kind = "raise" =>
            Route(in).kind = "raise" /\ Route(in).exc = "local"

\* The router has raised in the worker of the session being transcribed.
RouteFailed ==
    _transcribing /\ \E s \in Sessions : w_fail[s] = "route"

\* C19: an error of the local backend is not caught by the router; the
\* worker catches it, injects nothing for that session, and the engine
\* returns to Idle.
C19_FallbackFailure ==
    /\ [](LocalFailurePropagates)
    /\ [](\A s \in Sessions :
             w_fail[s] = "route" =>
                 /\ inject_calls[s] = 0
                 /\ w_text[s] = ""
                 /\ \A i \in 1..Len(injected) : injected[i] # s)
    /\ RouteFailed ~> Idle

\* C19 witness: the router raised in a session's worker, the worker went
\* through its finally clause and the engine is Idle with nothing injected.
C19_Witness ==
    \E s \in Sessions :
        /\ w_fail[s] = "route"
        /\ w_pc[s] = "tray"
        /\ inject_calls[s] = 0
        /\ injected = <<>>
        /\ Idle
        /\ [kind |-> "raise", text |-> "", source |-> "local"] \in RouteOutcomes

\* ---- C20
\* C20: with a primary other than "groq", or an empty credential, the router
\* never calls the cloud backend, no HTTP request is made, and the router
\* returns the local text tagged "local".
C20_PrimaryNotUsed ==
    RouteDone /\ ~RtPrimaryOn =>
        /\ RtOut.groq_calls = 0
        /\ RtOut.requests = 0
        /\ RtOut.waits = <<>>
        /\ RtOut.local_calls = 1
        /\ RtOut.source = "local"
        /\ RtLocal.kind = "ok" =>
              /\ RtOut.kind = "ok"
              /\ RtOut.text = RtLocal.text

\* C20 witness: primary "groq" with an empty credential; the local text was
\* returned.
C20_Witness ==
    /\ RouteDone
    /\ RtIn.primary = "groq"
    /\ RtIn.api_key = ""
    /\ RtOut.groq_calls = 0
    /\ RtOut.kind = "ok"
    /\ RtOut.text = "raw"
    /\ RtOut.source = "local"

\* ---- C21
\* The finished call of GroqTranscriber.transcribe: its inputs and result.
GroqDone == gq_out # NoResult
GqIn == gq_in[1]
GqOut == gq_out[1]
MaxRequests == _MAX_RETRIES + 1

\* The response is one the spec calls retryable: a status of the retryable
\* set, or a network timeout.
Retryable(r) ==
    (r.kind = "status" /\ r.code \in _RETRYABLE_STATUSES) \/ r.kind = "timeout"

\* C21: for every sequence of backend outcomes one transcribe call makes at
\* most 3 HTTP requests and ends by returning a text or raising (a call that
\* has not ended can always end); a backend that answers every request with
\* a retryable status gets exactly 3 requests and the call raises.
C21_BoundedRetry ==
    /\ ~GroqDone /\ gq_in # NoInput => ENABLED Groq_Call
    /\ GroqDone =>
        /\ GqOut.requests <= MaxRequests
        /\ GqOut.requests = Cardinality({i \in 1..Len(GqOut.trace) :
                                            GqOut.trace[i].e = "post"})
        /\ GqOut.kind \in {"ok", "raise"}
        /\ GqOut.trace[Len(GqOut.trace)].e \in {"return", "raise"}
        /\ (/\ GqIn.api_key # ""
            /\ \A i \in 1..MaxRequests :
                   /\ GqIn.responses[i].kind = "status"
                   /\ GqIn.responses[i].code \in _RETRYABLE_STATUSES)
           => /\ GqOut.requests = MaxRequests
              /\ GqOut.kind = "raise"
              /\ GqOut.exc = "HTTPStatusError"

\* C21 witness: 503, 429 and 500 were answered to the three requests and the
\* call raised.
C21_Witness ==
    /\ GroqDone
    /\ GqIn.api_key # ""
    /\ GqIn.responses[1].code = 503
    /\ GqIn.responses[2].code = 429
    /\ GqIn.responses[3].code = 500
    /\ GqOut.requests = 3
    /\ GqOut.kind = "raise"

\* ---- C22
\* The request that got the last response of the call.
LastResponse == GqIn.responses[GqOut.requests]

\* An error status outside the retryable set.
NonRetryableStatus(r) ==
    r.kind = "status" /\ r.code # 200 /\ r.code \notin _RETRYABLE_STATUSES

\* C22: a response with a non-retryable error status ends the call at once
\* with HTTPStatusError: no wait and no request follows it, so a 401 to the
\* first request gives exactly 1 request and no wait at all.
C22_NoRetryOnClientError ==
    GroqDone /\ GqIn.api_key # "" =>
        /\ \A i \in 1..GqOut.requests :
               NonRetryableStatus(GqIn.responses[i]) =>
                   /\ GqOut.requests = i
                   /\ GqOut.kind = "raise"
                   /\ GqOut.exc = "HTTPStatusError"
                   /\ Len(GqOut.waits) = i - 1
        /\ NonRetryableStatus(GqIn.responses[1]) =>
               /\ GqOut.requests = 1
               /\ GqOut.waits = <<>>
               /\ GqOut.trace = <<Posted(0), Ended("raise")>>

\* C22 witness: the first request was answered 401 and the call raised after
\* that one request.
C22_Witness ==
    /\ GroqDone
    /\ GqIn.api_key # ""
    /\ GqIn.responses[1].code = 401
    /\ GqIn.responses[2].code = 200
    /\ GqOut.requests = 1
    /\ GqOut.exc = "HTTPStatusError"

\* ---- C23
\* C23: if the first k-1 requests (k = 2 or 3) get a retryable status or a
\* timeout and request k gets a 200 with a text, the call returns that text
\* (stripped) after exactly k requests.
C23_RetryThenSuccess ==
    GroqDone /\ GqIn.api_key # "" =>
        \A k \in 2..MaxRequests :
            (/\ \A i \in 1..(k - 1) : Retryable(GqIn.responses[i])
             /\ GqIn.responses[k].kind = "status"
             /\ GqIn.responses[k].code = 200)
            => /\ GqOut.kind = "ok"
               /\ GqOut.text = Strip(GqIn.responses[k].text)
               /\ GqOut.requests = k

\* C23 witness: a timeout, a 503 and then a 200 gave the text after three
\* requests.
C23_Witness ==
    /\ GroqDone
    /\ GqIn.api_key # ""
    /\ GqIn.responses[1].kind = "timeout"
    /\ GqIn.responses[2].code = 503
    /\ GqIn.responses[3].code = 200
    /\ GqIn.responses[3].text = " raw "
    /\ GqOut.kind = "ok"
    /\ GqOut.text = "raw"
    /\ GqOut.requests = 3

\* ---- C24
\* C24: every wait of a call stands between a post that failed and the post
\* that retries it; the waits are the schedule's entries in order (0.3 s,
\* then 0.6 s) whatever failure came before; the call ends right after its
\* last post, and no wait follows a response with a non-retryable status.
C24_BackoffOrdering ==
    GroqDone =>
        LET tr == GqOut.trace
            sleeps == {i \in 1..Len(tr) : tr[i].e = "sleep"}
        IN  /\ \A i \in sleeps :
                   /\ i > 1 /\ i < Len(tr)
                   /\ tr[i - 1].e = "post"
                   /\ tr[i + 1].e = "post"
                   /\ tr[i + 1].n = tr[i - 1].n + 1
                   /\ ~(/\ GqIn.responses[tr[i - 1].n + 1].kind = "status"
                        /\ GqIn.responses[tr[i - 1].n + 1].code = 200)
                   /\ ~NonRetryableStatus(GqIn.responses[tr[i - 1].n + 1])
                   /\ tr[i].n = _BACKOFF_SCHEDULE[tr[i - 1].n + 1]
            /\ GqOut.waits = SubSeq(_BACKOFF_SCHEDULE, 1, Len(GqOut.waits))
            /\ Cardinality(sleeps) = Len(GqOut.waits)
            /\ Len(GqOut.waits) <= _MAX_RETRIES
            /\ GqOut.requests > 0 => tr[Len(tr) - 1].e = "post"

\* C24 witness: a timeout and a 429 were each followed by a wait, 0.3 s and
\* then 0.6 s, and the third post ended the call.
C24_Witness ==
    /\ GroqDone
    /\ GqIn.responses[1].kind = "timeout"
    /\ GqIn.responses[2].code = 429
    /\ GqOut.waits = <<3, 6>>
    /\ GqOut.trace = <<Posted(0), Slept(3), Posted(1), Slept(6), Posted(2),
                       Ended("raise")>>

\* ---- C25
\* C25: a request is followed by another request only if its response had a
\* retryable status or was a timeout.
C25_RetryOnlyRetryable ==
    GroqDone =>
        \A i \in 1..(GqOut.requests - 1) : Retryable(GqIn.responses[i])

\* ---- C26
\* The finished call of TextCleaner.clean: its inputs and result, and the
\* LLM's content as _llm_clean sees it after sanitizing.
CleanDone == cl_out # NoResult
ClIn == cl_in[1]
ClOut == cl_out[1]
ClEnabled == ClIn.cfg.llm_enabled /\ ClIn.cfg.api_key # ""
ClSanitized == _sanitize_response(Trim(ClIn.response.content))

\* C26: clean never raises, whatever the text and whatever the LLM request
\* does; clean of the empty text returns the empty text and makes no LLM
\* request.
C26_CleanNeverRaises ==
    CleanDone =>
        /\ ClOut.kind = "return"
        /\ ClOut.requests <= 1
        /\ ClIn.text = <<>> => ClOut.text = <<>> /\ ClOut.requests = 0

\* C26 witness: the LLM request failed in transport and clean returned the
\* regex result.
C26_Witness ==
    /\ CleanDone
    /\ ClEnabled
    /\ ClIn.response.kind = "transport"
    /\ ClIn.text = <<"u", "m", " ", "a">>
    /\ ClOut.kind = "return"
    /\ ClOut.text = <<"A", ".">>
    /\ ClOut.requests = 1

\* ---- C27
\* _llm_clean accepts the LLM's content for the call's text.
ClAccepted ==
    /\ ClEnabled
    /\ ClIn.text # <<>>
    /\ ClIn.response.kind = "content"
    /\ ClSanitized # <<>>
    /\ ~(Head(ClSanitized) \in _CONVERSATIONAL_PREFIXES)
    /\ 3 * TextLen(ClIn.text) < 10 * TextLen(ClSanitized)
    /\ TextLen(ClSanitized) < 2 * TextLen(ClIn.text)

\* C27: the result of clean is the sanitized LLM content as it is, when
\* _llm_clean accepts it, and otherwise _regex_clean of the original text;
\* never the regex stage applied to the LLM content.
C27_NoMixOfStages ==
    CleanDone =>
        /\ ClAccepted => ClOut.text = ClSanitized /\ ClOut.stage = "llm"
        /\ ~ClAccepted => ClOut.text = _regex_clean(ClIn.text)
                          /\ ClOut.stage \in {"regex", "empty"}

\* C27 witness: the accepted LLM text was returned although the regex stage
\* would change both it and the original.
C27_Witness ==
    /\ CleanDone
    /\ ClAccepted
    /\ ClIn.response.content = <<OpenTag, "a", " ", CloseTag>>
    /\ ClOut.text = <<"a">>
    /\ _regex_clean(ClOut.text) # ClOut.text
    /\ _regex_clean(ClIn.text) # ClOut.text
    /\ _regex_clean(ClIn.text) # ClIn.text

\* ---- C28
\* C28: an LLM content that, sanitized, begins with a conversational prefix
\* is rejected whatever its length, and clean returns _regex_clean of the
\* original text.
C28_ConversationalPrefixRejected ==
    CleanDone /\ ClEnabled /\ ClIn.text # <<>>
              /\ ClIn.response.kind = "content" =>
        \A x \in _CONVERSATIONAL_PREFIXES :
            (ClSanitized # <<>> /\ Head(ClSanitized) = x) =>
                /\ ClOut.stage = "regex"
                /\ ClOut.text = _regex_clean(ClIn.text)
                /\ ClOut.text # ClSanitized

\* C28 witness: "Sure," and one more character, inside a code fence, came
\* back for a text of ten characters (ratio 0.6) and was rejected.
C28_Witness ==
    /\ CleanDone
    /\ ClEnabled
    /\ TextLen(ClIn.text) = 10
    /\ ClIn.response.content = <<Fence, "a", Newline, "Sure,", "a", Newline, Fence>>
    /\ ClSanitized = <<"Sure,", "a">>
    /\ TextLen(ClSanitized) = 6
    /\ ClOut.stage = "regex"

\* ---- C29
\* C29: with r the length of the sanitized content and t the length of the
\* text (at least 1), the LLM text is returned only if 3t < 10r and r < 2t;
\* at ratio exactly 0.3 or 2.0, outside the interval, or with an empty
\* content, clean returns the regex result.
C29_LengthRatioGuard ==
    CleanDone /\ ClEnabled /\ ClIn.text # <<>>
              /\ ClIn.response.kind = "content" =>
        LET r == TextLen(ClSanitized)
            t == IF TextLen(ClIn.text) > 1 THEN TextLen(ClIn.text) ELSE 1
        IN  /\ ClOut.stage = "llm" => 3 * t < 10 * r /\ r < 2 * t
            /\ (3 * t >= 10 * r \/ r >= 2 * t \/ r = 0) =>
                   /\ ClOut.stage = "regex"
                   /\ ClOut.text = _regex_clean(ClIn.text)

\* C29 witness: a content of three characters for a text of ten (ratio
\* exactly 0.3) was rejected.
C29_Witness ==
    /\ CleanDone
    /\ ClEnabled
    /\ ClIn.response.kind = "content"
    /\ TextLen(ClIn.text) = 10
    /\ TextLen(ClSanitized) = 3
    /\ ClOut.stage = "regex"
    /\ ClOut.text = _regex_clean(ClIn.text)

\* ---- C30
\* C30: a cleaner built with llm_enabled false or without a credential makes
\* no LLM request and returns the regex result for every text.
C30_LlmOnlyWhenConfigured ==
    CleanDone /\ ~ClEnabled =>
        /\ ClOut.requests = 0
        /\ ClOut.kind = "return"
        /\ ClOut.text = _regex_clean(ClIn.text)
        /\ ClOut.stage \in {"regex", "empty"}

\* C30 witness: llm_enabled without a credential; the LLM would have given
\* an acceptable text, and the regex result was returned.
C30_Witness ==
    /\ CleanDone
    /\ ClIn.cfg.llm_enabled
    /\ ClIn.cfg.api_key = ""
    /\ ClIn.response.kind = "content"
    /\ ClIn.response.content = <<"a", "a">>
    /\ ClIn.text = <<"a", " ">>
    /\ ClOut.requests = 0
    /\ ClOut.text = <<"A", ".">>

\* ---- C34
\* C34: in every state, whatever the interleaving of the hotkey thread, the
\* workers and the audio callback, _recording and _transcribing are not both
\* true.
C34_FlagsExclusive == ~(_recording /\ _transcribing)

\* C34 witness: a start trigger stands at the guard of _on_record_start while
\* the worker of the session before has not yet cleared _transcribing.
C34_Witness ==
    /\ hk_pc = "start_called"
    /\ _transcribing
    /\ \E s \in Sessions : w_pc[s] = "finally"

\* ---- C35
\* A chunk that arrives at a full pre-buffer takes the place of the oldest
\* one: the others move up, in order, and the new chunk is the last.
EvictsOldestStep ==
    (Len(pre_buffer) = maxlen /\ pre_buffer' # pre_buffer /\ pre_buffer' # <<>>)
    => pre_buffer' = Append(Tail(pre_buffer), cb_chunk)

\* C35: whenever the recorder's lock is free, a recording recorder has an
\* empty pre-buffer and a recorder that is not recording has an empty
\* accumulation; the pre-buffer never holds more than maxlen chunks, and a
\* chunk arriving at full capacity evicts exactly the oldest chunk.
C35_RecorderBuffers ==
    /\ [](lock = "free" =>
            /\ is_recording => pre_buffer = <<>>
            /\ ~is_recording => recording_chunks = <<>>)
    /\ [](Len(pre_buffer) <= maxlen)
    /\ [][EvictsOldestStep]_vars

\* C35 witness: the lock is free on a recording recorder whose accumulation is
\* a full pre-roll taken after the oldest chunk had been evicted.
C35_Witness ==
    /\ lock = "free"
    /\ is_recording
    /\ pre_buffer = <<>>
    /\ Len(recording_chunks) = maxlen
    /\ recording_chunks = g_pre
    /\ g_start > maxlen
    /\ g_mark = g_start

\* ---- C36
\* The chunks a buffer of the recorder holds.
Held(q) == {q[i] : i \in 1..Len(q)}

\* C36: no chunk is returned in two clips; when a stop_recording has returned,
\* every chunk the callback routed to the recording is in a returned clip (the
\* one of that stop_recording, by the first part); and the recorder's
\* pre-buffer and accumulation hold no chunk of a returned clip.
C36_ClipOwnership ==
    /\ \A c \in DOMAIN g_fate : g_fate[c] # "dup"
    /\ rec_pc = "stop_done" => \A c \in DOMAIN g_fate : g_fate[c] # "live"
    /\ \A c \in Held(pre_buffer) \cup Held(recording_chunks) :
           g_fate[c] \notin {"clip", "dup"}

\* C36 witness: the second session's stop_recording has returned a clip, the
\* first session's clip held pre-roll, and a chunk routed since is in the
\* pre-buffer.
C36_Witness ==
    /\ rec_pc = "stop_done"
    /\ session = 2
    /\ audio_buf.kind = "clip"
    /\ g_fate[1] = "clip"
    /\ 1 \notin Held(audio_buf.data)
    /\ pre_buffer # <<>>

\* ---- C37
\* The engine calls start_recording only on a recorder that is not recording
\* and stop_recording only on one that is.
RecorderCallStep ==
    /\ start_calls' # start_calls => ~is_recording
    /\ stop_calls' # stop_calls => is_recording

\* C37: whenever no trigger handler is executing, engine._recording equals
\* recorder.is_recording; the engine never calls start_recording on a
\* recorder that is recording and never calls stop_recording on one that is
\* not.
C37_EngineRecorderAgree ==
    /\ [](hk_pc = "idle" => (_recording = is_recording))
    /\ [][RecorderCallStep]_vars

\* C37 witness: no handler is executing, the engine is Recording for the
\* second time and the recorder has accumulated a chunk.
C37_Witness ==
    /\ hk_pc = "idle"
    /\ _recording
    /\ is_recording
    /\ session = 2
    /\ start_calls = 2
    /\ stop_calls = 1
    /\ recording_chunks # <<>>

\* ---- C32
\* The stages a worker can go to from each position.
StageAfter ==
    [none |-> {"route"}, route |-> {"clean", "inject", "finally"},
     clean |-> {"inject"}, inject |-> {"finally"}, finally |-> {"tray"},
     tray |-> {"done"}, done |-> {}]

\* One step of a worker: it moves forward through the stages; the route stage
\* goes on to Clean exactly when it returned a non-empty text and a cleaner is
\* configured, to Inject exactly when it returned a non-empty text and there
\* is no cleaner, and to the finally clause otherwise; only the inject stage
\* calls inject_text, once.
StageOrderStep ==
    \A s \in Sessions :
        /\ w_pc'[s] # w_pc[s] => w_pc'[s] \in StageAfter[w_pc[s]]
        /\ (w_pc[s] = "route" /\ w_pc'[s] # "route") =>
               LET ok == w_fail'[s] = "none" /\ w_text'[s] # ""
               IN  /\ (w_pc'[s] = "clean") = (ok /\ cleaner)
                   /\ (w_pc'[s] = "inject") = (ok /\ ~cleaner)
                   /\ (w_pc'[s] = "finally") = ~ok
        /\ inject_calls'[s] > inject_calls[s] =>
               /\ w_pc[s] = "inject"
               /\ inject_calls[s] = 0
               /\ inject_calls'[s] = 1
               /\ w_fail[s] = "none"
        /\ (w_pc[s] = "inject" /\ w_pc'[s] # "inject") =>
               inject_calls'[s] = 1

\* A worker whose route stage returned an empty text: it stands at the
\* finally clause with no failure and no call of inject_text.
EmptyRouted ==
    \E s \in Sessions :
        /\ w_pc[s] = "finally"
        /\ w_fail[s] = "none"
        /\ inject_calls[s] = 0

\* C32: within a session the worker performs Route, then Clean, then Inject,
\* each at most once and in that order; Clean is called if and only if the
\* routed text is non-empty and a cleaner is configured, inject_text if and
\* only if the routed text is non-empty and no earlier stage raised; after an
\* empty routed text nothing is injected and the engine returns to Idle.
C32_StageOrder ==
    /\ [][StageOrderStep]_vars
    /\ EmptyRouted ~> Idle

\* C32 witness: with a cleaner configured, a worker has routed a non-empty
\* text, the cleaner returned the empty text and inject_text was still called,
\* once.
C32_Witness ==
    \E s \in Sessions :
        /\ cleaner
        /\ w_pc[s] = "finally"
        /\ w_fail[s] = "none"
        /\ w_text[s] = ""
        /\ inject_calls[s] = 1

\* ---- C33
\* C33 as stated: when the transcription of a session came from the local
\* backend, the cleaner makes no LLM request for that session, so no text
\* accepted from the LLM reaches inject_text.
C33_NoLlmCleanupOnFallback ==
    \A s \in Sessions :
        (_using_fallback /\ w_pc[s] = "inject") => w_text[s] # "llm"

\* ---- C40
\* The tray state that goes with the engine's state.
TrayMatchesEngine ==
    IF _recording THEN tray_state = "recording"
    ELSE IF _transcribing THEN tray_state = "processing"
    ELSE tray_state \in {"ready", "fallback"}

\* C40 as stated: with a tray present, when no trigger handler is executing
\* and no worker stands between clearing _transcribing and its set_state
\* call, the last tray state set matches the engine's state.
C40_TrayFollowsEngine ==
    (/\ tray
     /\ hk_pc = "idle"
     /\ \A s \in Sessions : w_pc[s] # "tray")
    => TrayMatchesEngine

\* ---- C31
\* The calls of a whole shutdown, in the order the claim gives.
ReleaseOrder ==
    <<"hotkeys.stop", "recorder.close", "groq.close">>
        \o (IF cleaner THEN <<"cleaner.close">> ELSE <<>>) \o <<"exit">>

\* A step of shutdown() can be taken.
ShutdownCanStep ==
    \/ ENABLED Shutdown_Hotkeys
    \/ ENABLED Shutdown_Recorder
    \/ ENABLED Shutdown_Exit

\* C31: the calls made by shutdown are at every moment the first of: stop the
\* hotkey listener, close the audio stream, close the transcriber's client,
\* close the cleaner's client when a cleaner exists, exit; so each is made
\* once, in that order, and the exit comes last. When the process has exited
\* the listener is not running and the stream is closed, stopped and closed
\* once. Until then shutdown can take its next step whatever the engine's
\* state and whatever a worker is doing.
C31_ShutdownOrder ==
    /\ released = SubSeq(ReleaseOrder, 1, Len(released))
    /\ Exited =>
           /\ _listener # "running"
           /\ stream = "none"
           /\ dev_stops <= 1
           /\ dev_closes <= 1
    /\ ~Exited => ShutdownCanStep

\* C31 witness: the process has exited, with a cleaner, after all four
\* releases, while the worker of a session was in its clean stage and the
\* engine Transcribing.
C31_Witness ==
    /\ Exited
    /\ cleaner
    /\ Len(released) = 5
    /\ released[4] = "cleaner.close"
    /\ _listener = "stopped"
    /\ dev_closes = 1
    /\ _transcribing
    /\ \E s \in Sessions : w_pc[s] = "clean"

\* ---- C38
\* A key action that ends a latch while the engine records and the listener
\* thread is free delivers the stop trigger: a toggle press with the toggle
\* latch set, and a push-to-talk release with the toggle latch clear.
StopDeliveredStep ==
    (hk_pc = "idle" /\ _recording) =>
        /\ (_toggle_active /\ ~_toggle_active') => hk_pc' = "stop_called"
        /\ (_ptt_held /\ ~_ptt_held' /\ ~_toggle_active) =>
               hk_pc' = "stop_called"

\* C38: with the hotkey manager wired to the engine, whenever the engine is
\* Recording and no handler is executing, _ptt_held or _toggle_active is
\* true, and the key action that clears the latch in force delivers the stop
\* trigger.
C38_NoOrphanRecording ==
    /\ []((hk_pc = "idle" /\ _recording) => (_ptt_held \/ _toggle_active))
    /\ [][StopDeliveredStep]_vars

\* C38 witness: the engine records its second session with no handler
\* executing, started by push-to-talk, which is still held, and the toggle
\* latch is clear.
C38_Witness ==
    /\ hk_pc = "idle"
    /\ _recording
    /\ is_recording
    /\ session = 2
    /\ _ptt_held
    /\ ~_toggle_active

\* ---- C39
\* C39 as stated: with the hotkey manager wired to the engine, whenever
\* _toggle_active is true and no handler is executing, the engine is
\* Recording.
C39_LatchReflectsRecording ==
    (hk_pc = "idle" /\ _toggle_active) => _recording

====
